---- MODULE Spec2Model ----
(***************************************************************************)
(* A model of messageworks: the hierarchical address utilities             *)
(* (src/utils/messenger-utils.ts) and the MessagingService router          *)
(* (src/services/messaging-service.ts).                                    *)
(*                                                                         *)
(* A JavaScript string is a sequence of one-character strings.  A          *)
(* Messenger (string | string[] | null) is a record [k, v]: k = "str" has  *)
(* v = <<the string>>, k = "arr" has v = the array of strings, k = "nil"   *)
(* is null/undefined.                                                      *)
(***************************************************************************)
EXTENDS Naturals, Sequences, FiniteSets

\* ------------------------------------------------------------------------
\* JavaScript string primitives used by messenger-utils.ts
\* ------------------------------------------------------------------------

SLASH == "/"
SPACE == " "

Min(a, b) == IF a < b THEN a ELSE b

\* Array.prototype.slice(0, n)
Slice(a, n) == SubSeq(a, 1, Min(n, Len(a)))

RECURSIVE DropLeading(_, _)
DropLeading(s, c) ==
  IF s # <<>> /\ Head(s) = c THEN DropLeading(Tail(s), c) ELSE s

RECURSIVE DropTrailing(_, _)
DropTrailing(s, c) ==
  IF s # <<>> /\ s[Len(s)] = c THEN DropTrailing(SubSeq(s, 1, Len(s) - 1), c) ELSE s

\* String.prototype.trim()
Trim(s) == DropTrailing(DropLeading(s, SPACE), SPACE)

\* s.replace(/^\/+|\/+$/g, '')
StripSlashes(s) == DropTrailing(DropLeading(s, SLASH), SLASH)

\* s.replace(/\/+/g, '/')
RECURSIVE CollapseSlashes(_)
CollapseSlashes(s) ==
  IF Len(s) < 2 THEN s
  ELSE IF s[1] = SLASH /\ s[2] = SLASH THEN CollapseSlashes(Tail(s))
  ELSE <<s[1]>> \o CollapseSlashes(Tail(s))

\* String.prototype.split('/'): "" splits into [""]
RECURSIVE SplitFrom(_, _)
SplitFrom(s, cur) ==
  IF s = <<>> THEN <<cur>>
  ELSE IF Head(s) = SLASH THEN <<cur>> \o SplitFrom(Tail(s), <<>>)
  ELSE SplitFrom(Tail(s), Append(cur, Head(s)))

Split(s) == SplitFrom(s, <<>>)

\* Array.prototype.join('/')
RECURSIVE Join(_)
Join(a) ==
  IF a = <<>> THEN <<>>
  ELSE IF Len(a) = 1 THEN a[1]
  ELSE a[1] \o <<SLASH>> \o Join(Tail(a))

\* a.filter(Boolean): drops the empty strings
RECURSIVE FilterBoolean(_)
FilterBoolean(a) ==
  IF a = <<>> THEN <<>>
  ELSE IF Head(a) = <<>> THEN FilterBoolean(Tail(a))
  ELSE <<Head(a)>> \o FilterBoolean(Tail(a))

\* a.map((item) => item.trim())
MapTrim(a) == [i \in 1..Len(a) |-> Trim(a[i])]

\* ------------------------------------------------------------------------
\* Messenger values
\* ------------------------------------------------------------------------

Str(s) == [k |-> "str", v |-> <<s>>]
Arr(a) == [k |-> "arr", v |-> a]
Nil    == [k |-> "nil", v |-> <<>>]

\* what a throwing call yields: a value no string or array of the model equals
ErrorStr == <<"Error">>
ErrorArr == <<ErrorStr>>
Thrown   == [k |-> "throw", v |-> <<>>]

\* normalizeMessenger, src/utils/messenger-utils.ts:54-80
normalizeMessenger(m) ==
  IF m.k = "nil" THEN Thrown
  ELSE IF m.k = "arr"
    THEN Arr(FilterBoolean(Split(Join(FilterBoolean(MapTrim(m.v))))))
    ELSE Str(Join(FilterBoolean(Split(CollapseSlashes(StripSlashes(Trim(m.v[1])))))))

\* messengerAsArray, src/utils/messenger-utils.ts:10-21
messengerAsArray(m) ==
  IF m.k = "nil" THEN ErrorArr
  ELSE IF m.k = "arr" THEN normalizeMessenger(m).v
  ELSE FilterBoolean(MapTrim(Split(normalizeMessenger(m).v[1])))

\* messengerAsString, src/utils/messenger-utils.ts:30-44
messengerAsString(m) ==
  IF m.k = "nil" THEN ErrorStr
  ELSE IF m.k = "str" THEN <<SLASH>> \o normalizeMessenger(m).v[1]
  ELSE <<SLASH>> \o Join(FilterBoolean(MapTrim(normalizeMessenger(m).v)))

\* JavaScript falsiness of a Messenger: null, undefined and ''
Falsy(m) == m.k = "nil" \/ (m.k = "str" /\ m.v[1] = <<>>)

\* a comparison without the test of line 93
EqualWithoutNullTest(m1, m2) == messengerAsString(m1) = messengerAsString(m2)

\* messengersAreEqual, src/utils/messenger-utils.ts:92-98
messengersAreEqual(m1, m2) ==
  IF Falsy(m1) \/ Falsy(m2) THEN FALSE
  ELSE messengerAsString(m1) = messengerAsString(m2)

\* an upstream test that looks for a differing segment only
UpstreamOnMismatchOnly(here, there) ==
  LET from == messengerAsArray(here)
      to   == messengerAsArray(there)
  IN \E i \in 1..Min(Len(from), Len(to)) : from[i] # to[i]

\* an upstream test without the test for level 0, which takes a there of
\* the same level for upstream as well
UpstreamOrSameLevel(here, there) ==
  LET from == messengerAsArray(here)
      to   == messengerAsArray(there)
  IN  IF Len(to) <= Len(from) THEN TRUE
      ELSE \E i \in 1..Len(from) : from[i] # to[i]

\* messengerIsUpstream, src/utils/messenger-utils.ts:116-149
messengerIsUpstream(here, there) ==
  LET from == messengerAsArray(here)
      to   == messengerAsArray(there)
  IN  IF Len(from) = 0 THEN FALSE
      ELSE IF Len(to) < Len(from) THEN TRUE
      ELSE IF \E i \in 1..Len(from) : from[i] # to[i] THEN TRUE
      ELSE FALSE

\* ------------------------------------------------------------------------
\* Messages (src/models): the fields the router reads or writes
\* ------------------------------------------------------------------------

GENERAL  == "GENERAL"
REQUEST  == "REQUEST"
RESPONSE == "RESPONSE"

NoId == 0

\* a message object as the application hands it to sendMessage: type and
\* broadcast are public fields (src/models/general-message.ts:27, 33) that
\* the application has set; id unset, source = []
NewMessage(type, broadcast, destination) ==
  [id |-> NoId, type |-> type, broadcast |-> broadcast, source |-> Arr(<<>>),
   destination |-> destination, requestId |-> NoId]

\* new GeneralMessage(name, destination): type GENERAL, broadcast false,
\* source [] and no id
GeneralMessage(destination) == NewMessage(GENERAL, FALSE, destination)

\* new RequestMessage(name, destination), src/models/request-message.ts:22-25:
\* super(name, destination, data), then this._type = REQUEST.  The base
\* class request-message.ts imports (src/models/general-message.ts) keeps
\* the type in the public field type, so the assignment makes a property
\* _type that nothing reads and the type stays GENERAL.
RequestMessage(destination) == GeneralMessage(destination)

\* new ResponseMessage(name, request), src/models/request-message.ts:64-68:
\* super(name, request.source, data), then this._type = RESPONSE (again a
\* property nothing reads) and this._requestId = request.id, which the
\* getter requestId (lines 75-77) returns
ResponseMessage(request) ==
  [GeneralMessage(request.source) EXCEPT !.requestId = request.id]

\* what postMessage hands to the other side of a channel: the structured
\* clone of a message built by the constructors above.  The clone keeps the
\* own properties (the public fields of general-message.ts:15-51) and drops
\* what the prototype provides, the getter requestId of a ResponseMessage.
StructuredClone(message) == [message EXCEPT !.requestId = NoId]

\* a payload built by a neighbouring context
Payload(type, broadcast, destination, requestId) ==
  [id |-> NoId, type |-> type, broadcast |-> broadcast, source |-> Arr(<<>>),
   destination |-> destination, requestId |-> requestId]

\* the value a promise resolves with when there is no response (null)
Null == [id |-> NoId, type |-> "NULL", broadcast |-> FALSE, source |-> Arr(<<>>),
         destination |-> Arr(<<>>), requestId |-> NoId]

\* ------------------------------------------------------------------------
\* One execution context: the MessagingService fields, the listener lists
\* of the channel objects it talks to, the caller's message objects and the
\* promises sendMessage returned.
\*   workers          Map<string, worker> in insertion order: <<[key, ch]>>
\*   workerListeners  Map<string, listener>: key -> listener identity
\*   responseHandlers Map<id, closure>: id -> [obj, fut, slot]
\*   subs             channel -> listeners subscribed on it, in order
\*   uuids            how many ids generateUUID has produced
\*   objs             the message objects the stored closures refer to
\*   futures          id assigned by the send -> the promise it returned
\*   out, calls, entered: what the operation in progress has posted, how
\*   often it invoked messageReceivedCallback and entered handleMessage
\* ------------------------------------------------------------------------

UP   == "up"      \* parentPort (worker_threads) or self (web worker)
NONE == "none"    \* an absent worker argument

NOOP == "noop"    \* the initial callback () => {}
APP  == "app"     \* a callback installed by the application

EmptyMap == [x \in {} |-> 0]

MapSet(f, x, y) == [z \in DOMAIN f \cup {x} |-> IF z = x THEN y ELSE f[z]]
MapDelete(f, x) == [z \in DOMAIN f \ {x} |-> f[z]]

\* private constructor, src/services/messaging-service.ts:21-40; the
\* listener on the parent side (lines 61-63, 104-122) is listener 0
NewService(messenger, isMainThread, chans) ==
  [messenger |-> messenger,
   isMainThread |-> isMainThread,
   messageReceivedCallback |-> NOOP,
   workers |-> <<>>,
   workerListeners |-> EmptyMap,
   responseHandlers |-> EmptyMap,
   subs |-> [c \in chans |-> IF c = UP /\ ~isMainThread THEN <<0>> ELSE <<>>],
   nextListener |-> 1,
   uuids |-> 0,
   objs |-> EmptyMap,
   futures |-> EmptyMap,
   out |-> <<>>,
   calls |-> 0,
   entered |-> 0]

\* the message objects and promises some stored closure still refers to
LiveObjs(c) == {c.responseHandlers[i].obj : i \in DOMAIN c.responseHandlers}
LiveFutures(c) == {c.responseHandlers[i].fut : i \in DOMAIN c.responseHandlers}

\* When an operation starts, the effects of the previous one are forgotten,
\* and so are the objects nothing can reach any more: message objects no
\* closure refers to, and promises that are settled and that no closure
\* can resolve again.
Begin(c) ==
  [c EXCEPT !.out = <<>>, !.calls = 0, !.entered = 0,
            !.objs = [o \in DOMAIN c.objs \cap LiveObjs(c) |-> c.objs[o]],
            !.futures = [f \in {g \in DOMAIN c.futures :
                                  \/ g \in LiveFutures(c)
                                  \/ \E i \in 1..Len(c.futures[g].inner) :
                                       ~c.futures[g].inner[i].resolved}
                         |-> c.futures[f]]]

\* worker.postMessage(message): the channel gets a copy of the message
Post(c, ch, message) == [c EXCEPT !.out = Append(@, [ch |-> ch, msg |-> message])]

\* Map.prototype.has / get / set / delete on the insertion-ordered workers
HasWorker(ws, key) == \E i \in 1..Len(ws) : ws[i].key = key
GetWorker(ws, key) == ws[CHOOSE i \in 1..Len(ws) : ws[i].key = key].ch
SetWorker(ws, key, ch) ==
  IF HasWorker(ws, key)
    THEN [i \in 1..Len(ws) |-> IF ws[i].key = key THEN [key |-> key, ch |-> ch] ELSE ws[i]]
    ELSE Append(ws, [key |-> key, ch |-> ch])
RECURSIVE DeleteWorker(_, _)
DeleteWorker(ws, key) ==
  IF ws = <<>> THEN <<>>
  ELSE IF Head(ws).key = key THEN Tail(ws)
  ELSE <<Head(ws)>> \o DeleteWorker(Tail(ws), key)

\* EventEmitter.off / removeEventListener: drops the listener from the list
RECURSIVE Unsubscribe(_, _)
Unsubscribe(ls, l) ==
  IF ls = <<>> THEN <<>>
  ELSE IF Head(ls) = l THEN Tail(ls)
  ELSE <<Head(ls)>> \o Unsubscribe(Tail(ls), l)

\* getWorkerKey, src/services/messaging-service.ts:397-401
getWorkerKey(c, name) ==
  messengerAsString(Arr(Append(messengerAsArray(c.messenger), name)))

\* an addWorker that checks the worker and not the name
AddWorkerUncheckedName(c0, name, worker) ==
  LET c == Begin(c0) IN
  IF worker = NONE THEN c
  ELSE LET workerKey == getWorkerKey(c, name)
           l == c.nextListener
       IN [c EXCEPT !.subs[worker] = Append(@, l),
                    !.workerListeners = MapSet(@, workerKey, l),
                    !.workers = SetWorker(@, workerKey, worker),
                    !.nextListener = l + 1]

\* addWorker, src/services/messaging-service.ts:129-157
addWorker(c0, name, worker) ==
  LET c == Begin(c0) IN
  IF name = <<>> \/ worker = NONE THEN c
  ELSE LET workerKey == getWorkerKey(c, name)
           l == c.nextListener
       IN [c EXCEPT !.subs[worker] = Append(@, l),
                    !.workerListeners = MapSet(@, workerKey, l),
                    !.workers = SetWorker(@, workerKey, worker),
                    !.nextListener = l + 1]

\* a removeWorker that forgets every listener when the name is unknown
RemoveOrForgetListeners(c, name) ==
  LET workerKey == getWorkerKey(c, name) IN
  IF workerKey \in DOMAIN c.workerListeners
    THEN LET worker == GetWorker(c.workers, workerKey)
             workerListener == c.workerListeners[workerKey]
         IN [c EXCEPT !.subs[worker] = Unsubscribe(@, workerListener),
                      !.workerListeners = MapDelete(@, workerKey),
                      !.workers = DeleteWorker(@, workerKey)]
    ELSE [c EXCEPT !.workerListeners = EmptyMap]

\* the body of removeWorker, src/services/messaging-service.ts:163-179
RemoveWorkerBody(c, name) ==
  LET workerKey == getWorkerKey(c, name) IN
  IF workerKey \in DOMAIN c.workerListeners
    THEN LET worker == GetWorker(c.workers, workerKey)
             workerListener == c.workerListeners[workerKey]
         IN [c EXCEPT !.subs[worker] = Unsubscribe(@, workerListener),
                      !.workerListeners = MapDelete(@, workerKey),
                      !.workers = DeleteWorker(@, workerKey)]
    ELSE c

removeWorker(c0, name) == RemoveWorkerBody(Begin(c0), name)

\* this.workers.forEach((worker, key) => this.removeWorker(key)): entries
\* deleted before the iteration reaches them are not visited
RECURSIVE RemoveEach(_, _)
RemoveEach(c, keys) ==
  IF keys = <<>> THEN c
  ELSE IF HasWorker(c.workers, Head(keys))
    THEN RemoveEach(RemoveWorkerBody(c, Head(keys)), Tail(keys))
    ELSE RemoveEach(c, Tail(keys))

\* a cleanUp that keeps the pending responders
CleanUpKeepingResponders(c0) ==
  LET c == Begin(c0)
      d == RemoveEach(c, [i \in 1..Len(c.workers) |-> c.workers[i].key])
  IN [d EXCEPT !.workerListeners = EmptyMap,
               !.messageReceivedCallback = NOOP]

\* cleanUp, src/services/messaging-service.ts:184-189
cleanUp(c0) ==
  LET c == Begin(c0)
      d == RemoveEach(c, [i \in 1..Len(c.workers) |-> c.workers[i].key])
  IN [d EXCEPT !.workerListeners = EmptyMap,
               !.responseHandlers = EmptyMap,
               !.messageReceivedCallback = NOOP]

\* ------------------------------------------------------------------------
\* Promises.  A future is what one sendMessage call returned: Promise.all
\* over one inner promise per selected destination (lines 260-288).
\*   inner[i] = [resolved, value, calls]: calls counts the resolve() calls
\* ------------------------------------------------------------------------

PendingPromise == [resolved |-> FALSE, value |-> Null, calls |-> 0]

\* Promise.resolve(null)
ResolvedNull == [resolved |-> TRUE, value |-> Null, calls |-> 1]

\* resolve(value): only the first call settles the promise
Resolve(p, value) ==
  [resolved |-> TRUE,
   value |-> IF p.resolved THEN p.value ELSE value,
   calls |-> p.calls + 1]

\* Promise.all(sendMessagePromises) has resolved
FutureResolved(f) == \A i \in 1..Len(f.inner) : f.inner[i].resolved

RECURSIVE FirstNonNull(_)
FirstNonNull(vals) ==
  IF vals = <<>> THEN Null
  ELSE IF Head(vals) # Null THEN Head(vals)
  ELSE FirstNonNull(Tail(vals))

\* responses.find((response) => response !== null) || null, and the
\* "return null" of line 296 when no destination was selected
FutureValue(f) == FirstNonNull([i \in 1..Len(f.inner) |-> f.inner[i].value])

\* ------------------------------------------------------------------------
\* sendMessage, src/services/messaging-service.ts:197-297
\* ------------------------------------------------------------------------

\* a downstream branch that treats a broadcast like any other message
RECURSIVE SelectIgnoringBroadcast(_, _, _)
SelectIgnoringBroadcast(ws, message, nextHop) ==
  IF ws = <<>> THEN <<>>
  ELSE LET key == Str(Head(ws).key)
           rest == SelectIgnoringBroadcast(Tail(ws), message, nextHop)
       IN IF messengersAreEqual(message.destination, key) THEN <<Head(ws).ch>> \o rest
          ELSE IF messengersAreEqual(Arr(nextHop), key) THEN <<Head(ws).ch>> \o rest
          ELSE rest

\* a downstream branch that selects every child
SelectEveryChild(ws, message, nextHop) == [i \in 1..Len(ws) |-> ws[i].ch]

\* the children the downstream branch selects, in Map order (lines 240-256)
RECURSIVE DownstreamDestinations(_, _, _)
DownstreamDestinations(ws, message, nextHop) ==
  IF ws = <<>> THEN <<>>
  ELSE LET key == Str(Head(ws).key)
           rest == DownstreamDestinations(Tail(ws), message, nextHop)
       IN IF message.broadcast THEN <<Head(ws).ch>> \o rest
          ELSE IF messengersAreEqual(message.destination, key) THEN <<Head(ws).ch>> \o rest
          ELSE IF messengersAreEqual(Arr(nextHop), key) THEN <<Head(ws).ch>> \o rest
          ELSE rest

\* a route selection that fans a broadcast out before it looks upstream
DestinationsBroadcastFirst(c, message, worker) ==
  LET here == messengerAsArray(c.messenger)
      there == messengerAsArray(message.destination)
      nextHop == Slice(there, Len(here) + 1)
  IN IF worker # NONE THEN <<worker>>
     ELSE IF message.broadcast THEN DownstreamDestinations(c.workers, message, nextHop)
     ELSE IF messengerIsUpstream(c.messenger, message.destination)
       THEN IF c.isMainThread THEN <<>> ELSE <<UP>>
     ELSE DownstreamDestinations(c.workers, message, nextHop)

\* a route selection that takes the worker argument only when the
\* destination is not upstream
DestinationsUpstreamFirst(c, message, worker) ==
  IF messengerIsUpstream(c.messenger, message.destination)
    THEN IF c.isMainThread THEN <<>> ELSE <<UP>>
  ELSE IF worker # NONE THEN <<worker>>
    ELSE LET here == messengerAsArray(c.messenger)
             there == messengerAsArray(message.destination)
             nextHop == Slice(there, Len(here) + 1)
         IN DownstreamDestinations(c.workers, message, nextHop)

\* a route selection that falls back to the upstream channel when it
\* selected nothing
DestinationsWithFallback(c, message, worker) ==
  LET here == messengerAsArray(c.messenger)
      there == messengerAsArray(message.destination)
      nextHop == Slice(there, Len(here) + 1)
      found == IF worker # NONE THEN <<worker>>
               ELSE IF messengerIsUpstream(c.messenger, message.destination)
                 THEN IF c.isMainThread THEN <<>> ELSE <<UP>>
               ELSE DownstreamDestinations(c.workers, message, nextHop)
  IN IF found = <<>> THEN <<UP>> ELSE found

\* route selection, lines 204-257: the channels postMessage is bound to
Destinations(c, message, worker) ==
  IF worker # NONE THEN <<worker>>
  ELSE IF messengerIsUpstream(c.messenger, message.destination)
    THEN IF c.isMainThread THEN <<>> ELSE <<UP>>
    ELSE LET here == messengerAsArray(c.messenger)
             there == messengerAsArray(message.destination)
             nextHop == Slice(there, Len(here) + 1)
         IN DownstreamDestinations(c.workers, message, nextHop)

\* a destinations.map(...) that stores a responder for every message type
RECURSIVE DispatchAwaitingAll(_, _, _, _, _)
DispatchAwaitingAll(c, o, f, dests, i) ==
  IF i > Len(dests) THEN c
  ELSE LET message == c.objs[o]
           d == [c EXCEPT !.responseHandlers =
                            MapSet(@, message.id, [obj |-> o, fut |-> f, slot |-> i])]
       IN DispatchAwaitingAll(Post(d, dests[i], message), o, f, dests, i + 1)

\* destinations.map(...), lines 260-284: for a REQUEST each destination
\* stores its own closure under the same key message.id, then posts
RECURSIVE Dispatch(_, _, _, _, _)
Dispatch(c, o, f, dests, i) ==
  IF i > Len(dests) THEN c
  ELSE LET message == c.objs[o]
           d == IF message.type = REQUEST
                  THEN [c EXCEPT !.responseHandlers =
                                   MapSet(@, message.id, [obj |-> o, fut |-> f, slot |-> i])]
                  ELSE c
       IN Dispatch(Post(d, dests[i], message), o, f, dests, i + 1)

\* a sendMessage that gives the message an id but leaves its source as the
\* caller wrote it
SendKeepingSource(c0, o, message0, worker) ==
  LET uuid == c0.uuids + 1
      b == Begin(c0)
      c == [b EXCEPT !.uuids = uuid,
                     !.objs = MapSet(@, o, [message0 EXCEPT !.id = uuid])]
      message == c.objs[o]
      dests == Destinations(c, message, worker)
      future == [inner |-> [i \in 1..Len(dests) |->
                              IF message.type = REQUEST THEN PendingPromise
                              ELSE ResolvedNull]]
  IN Dispatch([c EXCEPT !.futures = MapSet(@, uuid, future)], o, uuid, dests, 1)

\* sendMessage(message, worker) where message is the caller's object o;
\* generateUUID() yields the next unused id
sendMessage(c0, o, message0, worker) ==
  LET uuid == c0.uuids + 1
      b == Begin(c0)
      c == [b EXCEPT !.uuids = uuid,
                     !.objs = MapSet(@, o, [message0 EXCEPT !.source = c0.messenger,
                                                            !.id = uuid])]
      message == c.objs[o]
      dests == Destinations(c, message, worker)
      future == [inner |-> [i \in 1..Len(dests) |->
                              IF message.type = REQUEST THEN PendingPromise
                              ELSE ResolvedNull]]
  IN Dispatch([c EXCEPT !.futures = MapSet(@, uuid, future)], o, uuid, dests, 1)

\* ------------------------------------------------------------------------
\* The receive path, src/services/messaging-service.ts:303-395
\* ------------------------------------------------------------------------

\* this.messageReceivedCallback(message)
InvokeCallback(c, message) == [c EXCEPT !.calls = @ + 1]

\* the closure responseHandler of lines 264-271, stored as h
ResponseHandler(c, h, responseMessage) ==
  IF responseMessage.requestId = c.objs[h.obj].id
    THEN [c EXCEPT !.responseHandlers = MapDelete(@, responseMessage.requestId),
                   !.futures[h.fut].inner[h.slot] = Resolve(@, responseMessage)]
    ELSE c

\* a forwardUpstream that signs the message as its own
ForwardUpstreamStamping(c, message) ==
  IF c.isMainThread THEN c
  ELSE Post(c, UP, [message EXCEPT !.source = c.messenger])

\* forwardUpstream, lines 357-372
forwardUpstream(c, message) ==
  IF c.isMainThread THEN c ELSE Post(c, UP, message)

\* forwardDownstream, lines 378-395
RECURSIVE ForwardEach(_, _, _, _)
ForwardEach(c, ws, message, next) ==
  IF ws = <<>> THEN c
  ELSE LET key == Str(Head(ws).key)
           d == IF messengersAreEqual(message.destination, key)
                  THEN Post(c, Head(ws).ch, message)
                ELSE IF messengersAreEqual(Arr(next), key)
                  THEN Post(c, Head(ws).ch, message)
                ELSE c
       IN ForwardEach(d, Tail(ws), message, next)

\* a forwardDownstream that posts to every registered child
RECURSIVE PostEach(_, _, _)
PostEach(c, ws, message) ==
  IF ws = <<>> THEN c
  ELSE PostEach(Post(c, Head(ws).ch, message), Tail(ws), message)

ForwardToEveryChild(c, message) == PostEach(c, c.workers, message)

forwardDownstream(c, message) ==
  LET here == messengerAsArray(c.messenger)
      next == Slice(messengerAsArray(message.destination), Len(here) + 1)
  IN ForwardEach(c, c.workers, message, next)

\* a forwardMessage that never takes the upstream route
ForwardDownstreamOnly(c, message) ==
  IF messengersAreEqual(c.messenger, message.destination)
    THEN InvokeCallback(c, message)
  ELSE forwardDownstream(c, message)

\* forwardMessage, lines 337-351
forwardMessage(c, message) ==
  IF messengerIsUpstream(c.messenger, message.destination)
    THEN forwardUpstream(c, message)
  ELSE IF messengersAreEqual(c.messenger, message.destination)
    THEN InvokeCallback(c, message)
  ELSE forwardDownstream(c, message)

\* a handleMessage that hands a RESPONSE nobody waits for to the hook
HandleUnmatchedThroughHook(c0, message) ==
  LET c == [c0 EXCEPT !.entered = @ + 1] IN
  IF message.broadcast \/ messengersAreEqual(message.destination, c.messenger)
    THEN IF message.type = RESPONSE /\ message.requestId \in DOMAIN c.responseHandlers
           THEN LET d == ResponseHandler(c, c.responseHandlers[message.requestId], message)
                IN [d EXCEPT !.responseHandlers = MapDelete(@, message.requestId)]
           ELSE InvokeCallback(c, message)
    ELSE forwardMessage(c, message)

\* a handleMessage that looks at the destination only
HandleByDestinationOnly(c0, message) ==
  LET c == [c0 EXCEPT !.entered = @ + 1] IN
  IF messengersAreEqual(message.destination, c.messenger)
    THEN IF message.type = RESPONSE
           THEN LET d == IF message.requestId \in DOMAIN c.responseHandlers
                           THEN ResponseHandler(c, c.responseHandlers[message.requestId],
                                                message)
                           ELSE c
                IN [d EXCEPT !.responseHandlers = MapDelete(@, message.requestId)]
           ELSE InvokeCallback(c, message)
    ELSE forwardMessage(c, message)

\* handleMessage, lines 303-331
handleMessage(c0, message) ==
  LET c == [c0 EXCEPT !.entered = @ + 1] IN
  IF message.broadcast \/ messengersAreEqual(message.destination, c.messenger)
    THEN IF message.type = RESPONSE
           THEN LET d == IF message.requestId \in DOMAIN c.responseHandlers
                           THEN ResponseHandler(c, c.responseHandlers[message.requestId],
                                                message)
                           ELSE c
                IN [d EXCEPT !.responseHandlers = MapDelete(@, message.requestId)]
           ELSE InvokeCallback(c, message)
    ELSE forwardMessage(c, message)

\* a payload emitted on channel ch: every listener this service has
\* subscribed there (lines 108-110, 118-120, 139-151) runs handleMessage
RECURSIVE Listeners(_, _, _)
Listeners(c, n, message) ==
  IF n = 0 THEN c ELSE Listeners(handleMessage(c, message), n - 1, message)

emit(c0, ch, message) == Listeners(Begin(c0), Len(c0.subs[ch]), message)

\* ------------------------------------------------------------------------
\* Specification Spec: one MessagingService and its environment.  The
\* application calls addWorker, removeWorker, cleanUp and sendMessage and
\* assigns messageReceivedCallback; neighbouring contexts emit payloads on
\* the channels.
\*   svc       the context (see NewService)
\*   op        the last operation: its name and its inputs
\*   abandoned the ids of the requests that were unresolved when cleanUp ran
\* ------------------------------------------------------------------------

VARIABLES svc, op, abandoned

\* the static side of the class and the getInstance calls in progress
\* (specification InstSpec, below)
VARIABLES class, calls

\* a tree of contexts joined by channels (specification TreeSpec, below)
VARIABLES tree, wire, heard, expect

\* one call of a function of messenger-utils.ts or of a constructor of
\* src/models: its inputs, its name and what it returned (specifications
\* UtilSpec and MsgSpec, below)
VARIABLES util

\* what the contexts of a branching tree did with the messages
\* (specification NetSpec, below)
VARIABLES hooked, hops

vars == <<svc, op, abandoned, class, calls, tree, wire, heard, expect, util,
          hooked, hops>>

\* what the operations of one service leave alone
ServiceFrame == UNCHANGED <<class, calls, tree, wire, heard, expect, util, hooked, hops>>

\* what the class operations leave alone
ClassFrame == UNCHANGED <<svc, op, abandoned, tree, wire, heard, expect, util, hooked, hops>>

\* what the contexts of the tree leave alone
TreeFrame == UNCHANGED <<svc, op, abandoned, class, calls, util, hooked, hops>>

\* what a call of a pure function leaves alone
UtilFrame ==
  UNCHANGED <<svc, op, abandoned, class, calls, tree, wire, heard, expect, hooked, hops>>

MaxSends == 1     \* sendMessage calls per behaviour of Spec
MaxRequests == 2  \* sendMessage calls per behaviour of ReqSpec
MaxAdds  == 2     \* successful addWorker calls per behaviour
MaxStamps == 2    \* sendMessage calls per behaviour of SendSpec
MaxPending == 1   \* sendMessage calls per behaviour of CleanSpec and RegSpec

W1 == "w1"
W2 == "w2"
WorkerObjects == {W1, W2}
Channels == WorkerObjects \cup {UP}

\* own addresses: '/' on the main thread, workerData.name in a worker
ROOT == Str(<<"/">>)
Heres == {<<ROOT, TRUE>>, <<Str(<<"a">>), FALSE>>}

\* names given to addWorker; the empty string is an absent name
Names == {<<"a">>, <<"b">>, <<>>}

\* destinations of messages, in string and in array form
Dests == {ROOT, Str(<<"a">>), Str(<<"b">>), Arr(<< <<"a">>, <<"b">> >>),
          Str(<<"a", "/", "b", "/", "c">>)}

Op(name, o, ch, uname, msg) ==
  [name |-> name, o |-> o, ch |-> ch, uname |-> uname, msg |-> msg]

\* ------------------------------------------------------------------------
\* getInstance, src/services/messaging-service.ts:42-102.  class holds the
\* statics and what the calls have built:
\*   env, isMainThread  Node ("node"), a browser window or web worker
\*                      ("web"), or neither ("unknown")
\*   instance           MessagingService.instance: 0 is null, else the
\*                      number of the instance
\*   instancePromise    MessagingService.instancePromise: 0 is null
\*   promises           the promises created: [state, value], "awaiting"
\*                      while the executor waits for import('worker_threads')
\*   constructed        how many MessagingService objects were constructed
\*   upstream           how many listeners were subscribed on parentPort/self
\* calls: the promise each getInstance call returned
\* ------------------------------------------------------------------------

MaxCalls == 3     \* getInstance calls per behaviour

Envs == {<<"node", TRUE>>, <<"node", FALSE>>, <<"web", TRUE>>, <<"web", FALSE>>,
         <<"unknown", TRUE>>}

NewClass(env, isMainThread) ==
  [env |-> env, isMainThread |-> isMainThread,
   instance |-> 0, instancePromise |-> 0,
   promises |-> <<>>, constructed |-> 0, upstream |-> 0]

\* lines 58-63 and 78-82: new MessagingService(messenger), and off the main
\* thread setupWorkerThreadListener / setupWebWorkerListener
Construct(k) ==
  [k EXCEPT !.instance = k.constructed + 1,
            !.constructed = @ + 1,
            !.upstream = IF k.isMainThread THEN @ ELSE @ + 1]

\* the synchronous part of one getInstance call, lines 43-101: with no
\* instance yet a new promise replaces instancePromise and its executor
\* runs up to the await (Node), to the end (web) or to the throw
getInstance(k) ==
  IF k.instance # 0 THEN k
  ELSE LET p == Len(k.promises) + 1
           q == [k EXCEPT !.instancePromise = p]
       IN IF k.env = "node"
            THEN [q EXCEPT !.promises = Append(@, [state |-> "awaiting", value |-> 0])]
          ELSE IF k.env = "web"
            THEN LET c == Construct(q)
                 IN [c EXCEPT !.promises =
                                Append(@, [state |-> "resolved", value |-> c.instance])]
          ELSE [q EXCEPT !.promises = Append(@, [state |-> "rejected", value |-> 0])]

\* the executor of promise p resumes after the await of line 48: lines
\* 49-65 and 90-93 when the import succeeded, lines 66-69 and 94-97 when not
importSettled(k, p, ok) ==
  IF ok
    THEN LET c == Construct(k)
         IN [c EXCEPT !.promises[p] = [state |-> "resolved", value |-> c.instance]]
    ELSE [k EXCEPT !.promises[p] = [state |-> "rejected", value |-> 0]]

\* the class before the first getInstance call
ClassInit ==
  /\ class = NewClass("node", TRUE)
  /\ calls = <<>>

\* ------------------------------------------------------------------------
\* A tree of execution contexts: the main thread "/", its worker "a" and
\* that worker's worker "a/b".  Each context runs its own MessagingService;
\* a parent reaches its child through the worker object W1 and the child
\* reaches its parent through UP.
\*   tree    node -> the context (see NewService)
\*   wire    <<node, channel>> -> the payloads posted to the node on that
\*           channel and not yet delivered
\*   heard   <<node, source, id>>: the node's receive path took the message
\*   expect  <<node, source, id>>: the node was registered below the sender
\*           when the broadcast was sent
\* ------------------------------------------------------------------------

MaxTreeSends == 2   \* sendMessage calls per behaviour of TreeSpec

Nodes == {"r", "a", "ab"}
TreeChannels == {W1, UP}

Address(n) == IF n = "r" THEN ROOT
              ELSE IF n = "a" THEN Str(<<"a">>)
              ELSE Str(<<"a", "/", "b">>)

\* the name the parent registers its worker under
ChildName(n) == IF n = "r" THEN <<"a">> ELSE <<"b">>

HasChild(n) == n \in {"r", "a"}
Child(n)  == IF n = "r" THEN "a" ELSE "ab"
Parent(n) == IF n = "ab" THEN "a" ELSE "r"

\* the far end of a channel: the node and the channel it listens on
Peer(n, ch) == IF ch = UP THEN <<Parent(n), W1>> ELSE <<Child(n), UP>>

\* postMessage: what an operation of node n posted joins the queues
RECURSIVE Transmit(_, _, _)
Transmit(w, n, out) ==
  IF out = <<>> THEN w
  ELSE Transmit([w EXCEPT ![Peer(n, Head(out).ch)] = Append(@, Head(out).msg)],
                n, Tail(out))

\* the contexts registered below n, children and their descendants
Registered(t, n) == HasChild(n) /\ t[n].workers # <<>>
Below(t, n) ==
  IF ~Registered(t, n) THEN {}
  ELSE {Child(n)} \cup (IF Registered(t, Child(n)) THEN {Child(Child(n))} ELSE {})

TreeVarsInit ==
  /\ tree = [n \in Nodes |-> NewService(Address(n), n = "r", TreeChannels)]
  /\ wire = [l \in Nodes \X TreeChannels |-> <<>>]
  /\ heard = {}
  /\ expect = {}
  /\ hooked = EmptyMap
  /\ hops = EmptyMap

ServiceInit ==
  /\ \E h \in Heres : svc = NewService(h[1], h[2], Channels)
  /\ op = Op("init", 0, NONE, <<>>, Null)
  /\ abandoned = {}

\* no function call is being looked at
NoCall == [fn |-> "none", a |-> Nil, b |-> Nil, out |-> Nil]

UtilVarsInit == util = NoCall

Init == ServiceInit /\ ClassInit /\ TreeVarsInit /\ UtilVarsInit

\* addWorker(name, worker); an absent name or worker is always allowed
AddWorkerOf(names, workers) ==
  \E name \in names, worker \in workers :
    /\ svc.nextListener <= MaxAdds \/ name = <<>> \/ worker = NONE
    /\ svc' = addWorker(svc, name, worker)
    /\ op' = Op("addWorker", 0, worker, name, Null)
    /\ UNCHANGED abandoned
    /\ ServiceFrame

RemoveWorker ==
  \E name \in Names :
    /\ svc' = removeWorker(svc, name)
    /\ op' = Op("removeWorker", 0, NONE, name, Null)
    /\ UNCHANGED abandoned
    /\ ServiceFrame

CleanUp ==
  /\ svc' = cleanUp(svc)
  /\ op' = Op("cleanUp", 0, NONE, <<>>, Null)
  /\ abandoned' = abandoned \cup
       {f \in DOMAIN svc.futures : ~FutureResolved(svc.futures[f])}
  /\ ServiceFrame

\* service.messageReceivedCallback = hook (public field, line 24)
SetMessageReceived ==
  /\ svc.messageReceivedCallback = NOOP
  /\ svc' = [Begin(svc) EXCEPT !.messageReceivedCallback = APP]
  /\ op' = Op("setMessageReceived", 0, NONE, <<>>, Null)
  /\ UNCHANGED abandoned
  /\ ServiceFrame

\* sendMessage of a message object the application has just created
SendNewOf(types, dests, workers, max) ==
  \E type \in types, broadcast \in BOOLEAN, destination \in dests, worker \in workers :
    /\ svc.uuids < max
    /\ LET message == NewMessage(type, broadcast, destination)
           o == svc.uuids + 1
       IN /\ svc' = sendMessage(svc, o, message, worker)
          /\ op' = Op("sendMessage", o, worker, <<>>, message)
    /\ UNCHANGED abandoned
    /\ ServiceFrame

\* sendMessage of a message object that was sent before and that a stored
\* closure still refers to
SendAgain(max) ==
  \E o \in DOMAIN svc.objs \cap LiveObjs(svc) :
    /\ svc.uuids < max
    /\ svc' = sendMessage(svc, o, svc.objs[o], NONE)
    /\ op' = Op("sendMessage", o, NONE, <<>>, svc.objs[o])
    /\ UNCHANGED abandoned
    /\ ServiceFrame

\* a neighbouring context posts a payload on one of the channels; a
\* broadcast payload's destination is the root address
DeliverOf(chs, types, dests, max) ==
  \E ch \in chs, type \in types, broadcast \in BOOLEAN, destination \in dests,
     requestId \in 1..max :
    /\ type # RESPONSE => requestId = 1
    /\ broadcast => destination = ROOT
    /\ LET message == Payload(type, broadcast, destination,
                              IF type = RESPONSE THEN requestId ELSE NoId)
       IN /\ svc' = emit(svc, ch, message)
          /\ op' = Op("emit", 0, ch, <<>>, message)
    /\ UNCHANGED abandoned
    /\ ServiceFrame

\* Spec: fire-and-forget traffic over every registration the application
\* can make
Next ==
  \/ AddWorkerOf(Names, WorkerObjects \cup {NONE})
  \/ RemoveWorker
  \/ CleanUp
  \/ SetMessageReceived
  \/ SendNewOf({GENERAL}, Dests, {NONE, W1}, MaxSends)
  \/ DeliverOf(Channels, {GENERAL, RESPONSE}, Dests, MaxSends)

Spec == Init /\ [][Next]_vars

\* ReqSpec: requests and their responses; child "a" is worker W1 and child
\* "b" is worker W2
ReqDests == {ROOT, Str(<<"a">>), Arr(<< <<"a">>, <<"b">> >>)}

ReqNext ==
  \/ AddWorkerOf({<<"a">>}, {W1})
  \/ AddWorkerOf({<<"b">>}, {W2})
  \/ CleanUp
  \/ SetMessageReceived
  \/ SendNewOf({REQUEST}, ReqDests, {NONE, W1}, MaxRequests)
  \/ SendAgain(MaxRequests)
  \/ DeliverOf({UP, W1}, {RESPONSE}, {ROOT, Str(<<"a">>)}, MaxRequests)

ReqSpec == Init /\ [][ReqNext]_vars

\* RouteSpec: what sendMessage dispatches, over every registration the
\* application can make and undo
RouteNext ==
  \/ AddWorkerOf(Names, WorkerObjects \cup {NONE})
  \/ RemoveWorker
  \/ CleanUp
  \/ SendNewOf({GENERAL}, Dests, {NONE, W1}, MaxSends)

RouteSpec == Init /\ [][RouteNext]_vars

\* CleanSpec: requests that are pending when the application calls cleanUp,
\* and the responses that arrive for them
CleanNext ==
  \/ AddWorkerOf({<<"a">>}, {W1})
  \/ AddWorkerOf({<<"b">>}, {W2})
  \/ CleanUp
  \/ SetMessageReceived
  \/ SendNewOf({REQUEST}, ReqDests, {NONE, W1}, MaxPending)
  \/ DeliverOf({UP, W1}, {RESPONSE}, {ROOT, Str(<<"a">>)}, MaxPending)

CleanSpec == Init /\ [][CleanNext]_vars

\* RegSpec: registrations made and undone while a request is pending and
\* a hook is installed
RegNext ==
  \/ AddWorkerOf(Names, WorkerObjects \cup {NONE})
  \/ RemoveWorker
  \/ SetMessageReceived
  \/ SendNewOf({REQUEST}, {Str(<<"a">>)}, {NONE, W1}, MaxPending)

RegSpec == Init /\ [][RegNext]_vars

\* SendSpec: sendMessage of messages of every type, new ones and ones sent
\* before, with and without a worker argument; child "a" is worker W1 and
\* child "b" is worker W2
SendNext ==
  \/ AddWorkerOf({<<"a">>}, {W1})
  \/ AddWorkerOf({<<"b">>}, {W2})
  \/ SendNewOf({GENERAL, REQUEST, RESPONSE}, Dests, {NONE, W1}, MaxStamps)
  \/ SendAgain(MaxStamps)

SendSpec == Init /\ [][SendNext]_vars

\* RespSpec: payloads of both kinds arriving while a request is or is not
\* pending; a RESPONSE may name the pending request or an id this service
\* has not assigned
RespNext ==
  \/ AddWorkerOf({<<"a">>}, {W1})
  \/ SetMessageReceived
  \/ SendNewOf({REQUEST}, ReqDests, {NONE, W1}, MaxPending)
  \/ DeliverOf({UP, W1}, {GENERAL, RESPONSE}, {ROOT, Str(<<"a">>)}, MaxPending + 1)

RespSpec == Init /\ [][RespNext]_vars

\* ------------------------------------------------------------------------
\* What the last operation did
\* ------------------------------------------------------------------------

IsSend == op.name = "sendMessage"
IsEmit == op.name = "emit"

\* the message of the last sendMessage as it was posted
Stamped == svc.objs[op.o]

\* the channels the last operation posted on, in order
OutChannels == [i \in 1..Len(svc.out) |-> svc.out[i].ch]

\* the worker channels among them: the copies that went to children
IsWorkerObject(ch) == ch \in WorkerObjects
ToChildren == SelectSeq(OutChannels, IsWorkerObject)

\* the channels of the registered children, in registration order
ChildChannels == [i \in 1..Len(svc.workers) |-> svc.workers[i].ch]

\* canonical segments of the own address, of the i-th child's address and
\* of the last operation's message
HereSegs == messengerAsArray(svc.messenger)
ChildSegs(i) == messengerAsArray(Str(svc.workers[i].key))
DestSegs == messengerAsArray(op.msg.destination)

UpstreamSend == messengerIsUpstream(svc.messenger, op.msg.destination)

\* every post of the last operation carried the stamped message
PostsStamped == \A i \in 1..Len(svc.out) : svc.out[i].msg = Stamped

\* ------------------------------------------------------------------------
\* C3  send of a broadcast message without channel override dispatches one
\*     copy to each registered child, for every router and destination.
\* ------------------------------------------------------------------------

\* C3 as stated: fails on a non-root router when the destination is upstream
C3_BroadcastReachesEveryChild ==
  (IsSend /\ op.ch = NONE /\ op.msg.broadcast)
    => (ToChildren = ChildChannels /\ PostsStamped)

\* C3 amended: a broadcast send without channel override whose destination
\* is not upstream of the router (always so on a root router) dispatches one
\* copy to each registered child, in registration order
C3_BroadcastReachesEveryChildUnlessUpstream ==
  (IsSend /\ op.ch = NONE /\ op.msg.broadcast /\ ~UpstreamSend)
    => (ToChildren = ChildChannels /\ PostsStamped)

\* a non-root router with two children has sent a broadcast downstream
C3_Witness ==
  /\ IsSend /\ op.ch = NONE /\ op.msg.broadcast /\ ~UpstreamSend
  /\ ~svc.isMainThread
  /\ Len(svc.workers) = 2
  /\ Len(svc.out) = 2

\* ------------------------------------------------------------------------
\* C5  a non-broadcast send without override whose destination is not
\*     upstream dispatches exactly to the children whose address equals the
\*     destination or the destination's prefix of length |here|+1.
\* ------------------------------------------------------------------------

C5_Selected(i) ==
  \/ ChildSegs(i) = DestSegs
  \/ ChildSegs(i) = SubSeq(DestSegs, 1, Min(Len(HereSegs) + 1, Len(DestSegs)))

C5_OnlyMatchingChild ==
  (IsSend /\ op.ch = NONE /\ ~op.msg.broadcast /\ ~UpstreamSend)
    => /\ \A i \in 1..Len(svc.workers) :
            C5_Selected(i) => \E j \in 1..Len(svc.out) : svc.out[j].ch = svc.workers[i].ch
       /\ \A j \in 1..Len(svc.out) :
            \E i \in 1..Len(svc.workers) :
              C5_Selected(i) /\ svc.workers[i].ch = svc.out[j].ch
       /\ Len(svc.out) = Cardinality({i \in 1..Len(svc.workers) : C5_Selected(i)})
       /\ PostsStamped

\* two children are registered and only the next hop of the destination
\* got the message
C5_Witness ==
  /\ IsSend /\ op.ch = NONE /\ ~op.msg.broadcast /\ ~UpstreamSend
  /\ Len(svc.workers) = 2
  /\ svc.workers[1].ch # svc.workers[2].ch
  /\ Len(svc.out) = 1
  /\ \E i \in 1..2 : ChildSegs(i) # DestSegs /\ C5_Selected(i)

\* ------------------------------------------------------------------------
\* C6  a non-root router sending, without override, to a destination that
\*     isUpstream dispatches exactly once on the upstream channel and on no
\*     child channel, whatever the children and the broadcast flag.
\* ------------------------------------------------------------------------

C6_UpstreamOnly ==
  (IsSend /\ op.ch = NONE /\ ~svc.isMainThread /\ UpstreamSend)
    => (Len(svc.out) = 1 /\ svc.out[1].ch = UP /\ PostsStamped)

\* a broadcast message went upstream although two children are registered
C6_Witness ==
  /\ IsSend /\ op.ch = NONE /\ ~svc.isMainThread /\ UpstreamSend
  /\ op.msg.broadcast
  /\ Len(svc.workers) = 2
  /\ OutChannels = <<UP>>

\* ------------------------------------------------------------------------
\* C7  after cleanUp, on any router and with any registered children, the
\*     child map is empty and no child channel keeps a listener of this
\*     service.  (Stated as claimed; the code breaks it.)
\* ------------------------------------------------------------------------

C7_CleanUpRemovesEveryChild ==
  op.name = "cleanUp"
    => (svc.workers = <<>> /\ \A w \in WorkerObjects : svc.subs[w] = <<>>)

\* ------------------------------------------------------------------------
\* C9  after cleanUp no payload arriving on any channel, the upstream one
\*     included, enters the receive path.  (Stated as claimed; the code
\*     breaks it.)
\* ------------------------------------------------------------------------

C9_NothingEntersAfterCleanUp ==
  [][(op.name = "cleanUp" /\ op'.name = "emit") => svc'.entered = 0]_vars

\* ------------------------------------------------------------------------
\* Requests and responses (ReqSpec)
\* ------------------------------------------------------------------------

\* the last payload was a RESPONSE that some listener handed to
\* handleMessage and that handleMessage treats as addressed to this context
ResponseProcessed ==
  /\ IsEmit
  /\ op.msg.type = RESPONSE
  /\ svc.entered >= 1
  /\ (op.msg.broadcast \/ messengersAreEqual(op.msg.destination, svc.messenger))

\* ------------------------------------------------------------------------
\* C1  the future of a REQUEST resolves exactly once: the first RESPONSE
\*     with its id that the receive path processes resolves it with that
\*     response and removes the responder; a later RESPONSE with the same
\*     requestId is dropped, resolving nothing and not invoking the hook.
\*     (Stated as claimed; the code breaks it.)
\* ------------------------------------------------------------------------

C1_ResolvesExactlyOnce ==
  [][ResponseProcessed' =>
        LET r == op'.msg.requestId IN
        /\ \A f \in DOMAIN svc'.futures : \A i \in 1..Len(svc'.futures[f].inner) :
             svc'.futures[f].inner[i].calls <= 1
        /\ svc'.calls = 0
        /\ r \notin DOMAIN svc'.responseHandlers
        /\ IF r \in DOMAIN svc.responseHandlers
             THEN /\ FutureResolved(svc'.futures[r])
                  /\ FutureValue(svc'.futures[r]) = op'.msg
             ELSE /\ svc'.responseHandlers = svc.responseHandlers
                  /\ \A f \in DOMAIN svc'.futures : svc'.futures[f] = svc.futures[f]]_vars

\* ------------------------------------------------------------------------
\* C2  a REQUEST dispatched on one or more channels (a broadcast fanned out
\*     to two children included) resolves once a RESPONSE with its id is
\*     received, without waiting for a further response.  (Stated as
\*     claimed, for requests whose message object was not sent again; the
\*     code breaks it.)
\* ------------------------------------------------------------------------

C2_ResolvesOnFirstResponse ==
  [][(/\ ResponseProcessed'
      /\ op'.msg.requestId \in DOMAIN svc.responseHandlers
      /\ Len(svc.futures[op'.msg.requestId].inner) >= 1
      /\ svc.objs[svc.responseHandlers[op'.msg.requestId].obj].id = op'.msg.requestId)
        => FutureResolved(svc'.futures[op'.msg.requestId])]_vars

\* ------------------------------------------------------------------------
\* C8  cleanUp empties the pending-responder map without settling any
\*     outstanding future and resets the hook: a RESPONSE for a request
\*     that was pending at cleanUp, arriving later, is dropped, and that
\*     future stays unresolved for ever.
\* ------------------------------------------------------------------------

C8_CleanUpAbandonsRequests ==
  /\ \A f \in abandoned :
       /\ f \in DOMAIN svc.futures
       /\ ~FutureResolved(svc.futures[f])
       /\ f \notin DOMAIN svc.responseHandlers
  /\ op.name = "cleanUp"
       => (svc.responseHandlers = EmptyMap /\ svc.messageReceivedCallback = NOOP)
  /\ (ResponseProcessed /\ op.msg.requestId \in abandoned)
       => (svc.calls = 0 /\ svc.out = <<>>)

\* a RESPONSE for an abandoned request has been processed after cleanUp,
\* which also took away a hook the application had installed
C8_Witness ==
  /\ ResponseProcessed
  /\ op.msg.requestId \in abandoned
  /\ svc.messageReceivedCallback = NOOP
  /\ ~FutureResolved(svc.futures[op.msg.requestId])

\* ------------------------------------------------------------------------
\* Specification InstSpec: getInstance calls in one execution context
\* ------------------------------------------------------------------------

InstInit ==
  /\ \E e \in Envs : class = NewClass(e[1], e[2])
  /\ calls = <<>>
  /\ svc = NewService(ROOT, TRUE, Channels)
  /\ op = Op("init", 0, NONE, <<>>, Null)
  /\ abandoned = {}
  /\ TreeVarsInit
  /\ UtilVarsInit

GetInstance ==
  /\ Len(calls) < MaxCalls
  /\ class' = getInstance(class)
  /\ calls' = Append(calls, class'.instancePromise)
  /\ ClassFrame

ImportSettled ==
  \E p \in 1..Len(class.promises), ok \in BOOLEAN :
    /\ class.promises[p].state = "awaiting"
    /\ class' = importSettled(class, p, ok)
    /\ UNCHANGED calls
    /\ ClassFrame

InstNext ==
  \/ GetInstance
  \/ ImportSettled

InstSpec == InstInit /\ [][InstNext]_vars

\* ------------------------------------------------------------------------
\* C10 every getInstance call of one context yields the same instance, also
\*     when a call is made while the first one's import has not completed:
\*     at most one instance is constructed and at most one upstream handler
\*     subscribed.  (Stated as claimed; the code breaks it.)
\* ------------------------------------------------------------------------

C10_Singleton ==
  /\ class.constructed <= 1
  /\ class.upstream <= 1
  /\ \A i, j \in 1..Len(calls) :
       (class.promises[calls[i]].state = "resolved"
        /\ class.promises[calls[j]].state = "resolved")
         => class.promises[calls[i]].value = class.promises[calls[j]].value

\* ------------------------------------------------------------------------
\* Specification TreeSpec: the three contexts register their workers, send
\* messages and take delivery of what was posted to them
\* ------------------------------------------------------------------------

TreeDests == {ROOT, Str(<<"a">>), Str(<<"a", "/", "b">>)}

TreeInit ==
  /\ TreeVarsInit
  /\ svc = NewService(ROOT, TRUE, Channels)
  /\ op = Op("init", 0, NONE, <<>>, Null)
  /\ abandoned = {}
  /\ ClassInit
  /\ UtilVarsInit

\* the parent n registers its worker
TreeAddWorker ==
  \E n \in Nodes :
    /\ HasChild(n)
    /\ ~Registered(tree, n)
    /\ tree' = [tree EXCEPT ![n] = addWorker(@, ChildName(n), W1)]
    /\ UNCHANGED <<wire, heard, expect>>
    /\ TreeFrame

\* the application in context n sends a new message
TreeSend ==
  \E n \in Nodes, broadcast \in BOOLEAN, destination \in TreeDests :
    /\ tree["r"].uuids + tree["a"].uuids + tree["ab"].uuids < MaxTreeSends
    /\ LET c == sendMessage(tree[n], tree[n].uuids + 1,
                            NewMessage(GENERAL, broadcast, destination), NONE)
       IN /\ tree' = [tree EXCEPT ![n] = c]
          /\ wire' = Transmit(wire, n, c.out)
          /\ expect' = IF broadcast
                         THEN expect \cup {<<d, Address(n), c.uuids>> : d \in Below(tree, n)}
                         ELSE expect
    /\ UNCHANGED heard
    /\ TreeFrame

\* the payload at the head of a queue is emitted on node n's channel
TreeDeliver ==
  \E n \in Nodes, ch \in TreeChannels :
    /\ wire[<<n, ch>>] # <<>>
    /\ LET message == Head(wire[<<n, ch>>])
           c == emit(tree[n], ch, message)
       IN /\ tree' = [tree EXCEPT ![n] = c]
          /\ wire' = Transmit([wire EXCEPT ![<<n, ch>>] = Tail(@)], n, c.out)
          /\ heard' = IF c.entered > 0
                        THEN heard \cup {<<n, message.source, message.id>>}
                        ELSE heard
    /\ UNCHANGED expect
    /\ TreeFrame

TreeNext ==
  \/ TreeAddWorker
  \/ TreeSend
  \/ TreeDeliver

TreeSpec == TreeInit /\ [][TreeNext]_vars

Quiet == \A l \in Nodes \X TreeChannels : wire[l] = <<>>

\* ------------------------------------------------------------------------
\* C4  a broadcast reaches every context registered below its sender, the
\*     direct children and through them their descendants, whatever its
\*     destination: once nothing is in flight any more, every context that
\*     was registered below the sender has taken the message.  (Stated as
\*     claimed; the code breaks it.)
\* ------------------------------------------------------------------------

C4_BroadcastReachesDescendants == Quiet => expect \subseteq heard

\* the same for broadcasts of the main thread only, which are never routed
\* upstream
C4_RootBroadcastReachesDescendants ==
  Quiet => {e \in expect : e[2] = ROOT} \subseteq heard

\* ------------------------------------------------------------------------
\* Registration of children (RouteSpec)
\* ------------------------------------------------------------------------

\* the last operation was addWorker with a name and a worker
IsAdd == op.name = "addWorker" /\ op.uname # <<>> /\ op.ch # NONE

\* the key a name is registered under
KeyOf(name) == getWorkerKey(svc, name)

\* the last operation registered the only child of the service on a
\* channel that carried no listener of the service before
FirstRegistration ==
  /\ IsAdd
  /\ svc.workers = <<[key |-> KeyOf(op.uname), ch |-> op.ch]>>
  /\ DOMAIN svc.workerListeners = {KeyOf(op.uname)}
  /\ svc.subs[op.ch] = <<svc.workerListeners[KeyOf(op.uname)]>>

\* payloads a neighbouring context may emit
Payloads ==
  {Payload(type, broadcast, destination, 1) :
     type \in {GENERAL, REQUEST, RESPONSE}, broadcast \in BOOLEAN, destination \in Dests}

\* the last operation was addWorker(x, c), and x on c is the only child of
\* the service
OnlyChildAdded ==
  /\ IsAdd
  /\ svc.workers = <<[key |-> KeyOf(op.uname), ch |-> op.ch]>>

\* ------------------------------------------------------------------------
\* C11 after addWorker(x, c), x being the only child, followed by
\*     removeWorker(x), the child map and the listener map are empty and
\*     no payload emitted on c afterwards reaches the receive path.
\*     (Stated as claimed; the code breaks it when the addWorker was not
\*     the first one for x.)
\* ------------------------------------------------------------------------

C11_RemoveUndoesAdd ==
  [][(OnlyChildAdded /\ op'.name = "removeWorker" /\ op'.uname = op.uname)
       => /\ svc'.workers = <<>>
          /\ svc'.workerListeners = EmptyMap
          /\ svc'.subs[op.ch] = <<>>
          /\ \A m \in Payloads : emit(svc', op.ch, m).entered = 0]_vars

\* ------------------------------------------------------------------------
\* C12 addWorker is idempotent per name: after addWorker(n, c1) and then
\*     addWorker(n, c2) the service holds one registration for n, namely c2
\*     with one subscribed listener; a payload on c2 is processed once and
\*     payloads on a replaced c1 no more.  (Stated as claimed; the code
\*     breaks it.)
\* ------------------------------------------------------------------------

C12_ReAddReplaces ==
  [][(FirstRegistration /\ op'.name = "addWorker" /\ op'.uname = op.uname
        /\ op'.ch # NONE)
       => /\ svc'.workers = <<[key |-> KeyOf(op.uname), ch |-> op'.ch]>>
          /\ Len(svc'.subs[op'.ch]) = 1
          /\ \A m \in Payloads : emit(svc', op'.ch, m).entered = 1
          /\ op.ch # op'.ch =>
               /\ svc'.subs[op.ch] = <<>>
               /\ \A m \in Payloads : emit(svc', op.ch, m).entered = 0]_vars

\* ------------------------------------------------------------------------
\* C13 removeWorker of a name that is not registered raises no error and
\*     leaves the child map, the listener map and the subscriptions, the
\*     pending-responder map and the hook unchanged.
\* ------------------------------------------------------------------------

C13_RemoveUnregisteredIsNoOp ==
  [][(op'.name = "removeWorker" /\ ~HasWorker(svc.workers, KeyOf(op'.uname)))
       => /\ svc'.workers = svc.workers
          /\ svc'.workerListeners = svc.workerListeners
          /\ svc'.subs = svc.subs
          /\ svc'.responseHandlers = svc.responseHandlers
          /\ svc'.messageReceivedCallback = svc.messageReceivedCallback]_vars

\* removeWorker of an unregistered name has run on a service that holds a
\* child, a pending responder and a hook; no registration was ever undone
C13_Witness ==
  /\ op.name = "removeWorker"
  /\ ~HasWorker(svc.workers, KeyOf(op.uname))
  /\ svc.workers # <<>>
  /\ svc.nextListener = Len(svc.workers) + 1
  /\ DOMAIN svc.workerListeners = {svc.workers[i].key : i \in 1..Len(svc.workers)}
  /\ svc.responseHandlers # EmptyMap
  /\ svc.messageReceivedCallback = APP

\* ------------------------------------------------------------------------
\* C14 addWorker with an absent name or an absent worker raises no error,
\*     subscribes no listener and leaves the child map and the listener map
\*     unchanged.
\* ------------------------------------------------------------------------

C14_AddWithoutNameOrWorkerIsNoOp ==
  [][(op'.name = "addWorker" /\ (op'.uname = <<>> \/ op'.ch = NONE))
       => /\ svc'.workers = svc.workers
          /\ svc'.workerListeners = svc.workerListeners
          /\ svc'.subs = svc.subs
          /\ svc'.nextListener = svc.nextListener]_vars

\* addWorker was called without a name for a worker that carries no
\* listener, on a service that holds a child
C14_Witness ==
  /\ op.name = "addWorker" /\ op.uname = <<>> /\ op.ch # NONE
  /\ svc.workers # <<>>
  /\ svc.subs[op.ch] = <<>>

\* ------------------------------------------------------------------------
\* sendMessage (SendSpec)
\* ------------------------------------------------------------------------

\* the ids this service has assigned so far
AssignedIds == 1..svc.uuids

\* the promise the last sendMessage returned
Returned == svc.futures[Stamped.id]

\* ------------------------------------------------------------------------
\* C15 every send, whatever route is selected and also when none is found,
\*     sets message.source to the router's own address and message.id to a
\*     value the service never assigned before, and leaves the other fields
\*     of the message as they were.
\* ------------------------------------------------------------------------

C15_StampsSourceAndFreshId ==
  [][IsSend' =>
       /\ Stamped'.source = svc.messenger
       /\ Stamped'.id # NoId
       /\ Stamped'.id \notin AssignedIds
       /\ Stamped'.id # op'.msg.id
       /\ \A o \in DOMAIN svc.objs : Stamped'.id # svc.objs[o].id
       /\ Stamped' = [op'.msg EXCEPT !.source = svc.messenger, !.id = Stamped'.id]
       /\ PostsStamped']_vars

\* a message that was sent before has been sent again and no route was
\* found for it
C15_Witness ==
  /\ IsSend
  /\ op.msg.id # NoId
  /\ svc.uuids = 2
  /\ svc.out = <<>>
  /\ Stamped.id = 2

\* ------------------------------------------------------------------------
\* C16 a send with a worker argument dispatches the message exactly once, on
\*     that worker's channel and on no other (not upstream, not on another
\*     registered child), whatever destination and broadcast flag it has.
\* ------------------------------------------------------------------------

C16_OverrideIsTheOnlyChannel ==
  (IsSend /\ op.ch # NONE)
    => /\ OutChannels = <<op.ch>>
       /\ PostsStamped

\* a broadcast whose destination is upstream was sent with a worker
\* argument from a context that has another child registered as well
C16_Witness ==
  /\ IsSend /\ op.ch = W1
  /\ op.msg.broadcast
  /\ UpstreamSend
  /\ ~svc.isMainThread
  /\ \E i \in 1..Len(svc.workers) : svc.workers[i].ch = W2
  /\ OutChannels = <<W1>>

\* ------------------------------------------------------------------------
\* C17 when a send selects no destination (no worker argument, destination
\*     not upstream, and either a broadcast with no child registered or a
\*     non-broadcast that no registered child matches), the returned promise
\*     resolves to null, nothing is posted on any channel, and the map of
\*     pending responders is as it was, also for a REQUEST.
\* ------------------------------------------------------------------------

\* the i-th child of c is the destination of message or its next hop
Matches(c, i, message) ==
  LET here == messengerAsArray(c.messenger)
      there == messengerAsArray(message.destination)
      child == messengerAsArray(Str(c.workers[i].key))
  IN \/ child = there
     \/ child = SubSeq(there, 1, Min(Len(here) + 1, Len(there)))

\* the case of the claim: what c, the worker argument and the message are
\* when sendMessage is called
NoRouteFor(c, worker, message) ==
  /\ worker = NONE
  /\ ~messengerIsUpstream(c.messenger, message.destination)
  /\ IF message.broadcast THEN c.workers = <<>>
     ELSE \A i \in 1..Len(c.workers) : ~Matches(c, i, message)

NothingSelected == IsSend /\ NoRouteFor(svc, op.ch, op.msg)

C17_NoRouteResolvesToNone ==
  [][(op'.name = "sendMessage" /\ NoRouteFor(svc, op'.ch, op'.msg)) =>
       /\ svc'.out = <<>>
       /\ FutureResolved(svc'.futures[svc'.uuids])
       /\ FutureValue(svc'.futures[svc'.uuids]) = Null
       /\ svc'.responseHandlers = svc.responseHandlers]_vars

\* a REQUEST that no registered child matches was sent while the responder
\* of an earlier REQUEST was pending
C17_Witness ==
  /\ NothingSelected
  /\ op.msg.type = REQUEST
  /\ ~op.msg.broadcast
  /\ svc.workers # <<>>
  /\ DOMAIN svc.responseHandlers = {1}
  /\ Stamped.id = 2
  /\ svc.out = <<>>

\* ------------------------------------------------------------------------
\* C18 a send of a message whose type is not REQUEST stores no responder
\*     and returns a promise that is resolved to null when the call ends,
\*     with no inbound message needed, whether a destination was selected
\*     or not.
\* ------------------------------------------------------------------------

C18_NonRequestIsFireAndForget ==
  [][(op'.name = "sendMessage" /\ op'.msg.type # REQUEST) =>
       /\ svc'.responseHandlers = svc.responseHandlers
       /\ svc'.uuids \notin DOMAIN svc'.responseHandlers
       /\ FutureResolved(svc'.futures[svc'.uuids])
       /\ FutureValue(svc'.futures[svc'.uuids]) = Null]_vars

\* a RESPONSE was posted to a registered child while the responder of an
\* earlier REQUEST was pending
C18_Witness ==
  /\ IsSend
  /\ op.msg.type = RESPONSE
  /\ op.ch = NONE
  /\ svc.out # <<>>
  /\ DOMAIN svc.responseHandlers = {1}
  /\ FutureResolved(Returned)
  /\ ~FutureResolved(svc.futures[1])

\* ------------------------------------------------------------------------
\* The receive path (Spec, CleanSpec)
\* ------------------------------------------------------------------------

\* the last payload arrived on a channel some listener is subscribed to and
\* its destination is this context's own address
ArrivedHere ==
  /\ IsEmit
  /\ svc.subs[op.ch] # <<>>
  /\ messengersAreEqual(op.msg.destination, svc.messenger)

\* ------------------------------------------------------------------------
\* C19 a non-RESPONSE message arriving on a subscribed channel with the
\*     context's own address as destination invokes the received-message
\*     hook exactly once and is posted on no channel.  (Stated as claimed;
\*     the code breaks it.)
\* ------------------------------------------------------------------------

C19_HookInvokedOnce ==
  (ArrivedHere /\ op.msg.type # RESPONSE)
    => (svc.calls = 1 /\ svc.out = <<>>)

\* ------------------------------------------------------------------------
\* C20 a RESPONSE arriving on a subscribed channel with the context's own
\*     address as destination never invokes the received-message hook.  If
\*     a responder is stored under its requestId, that responder is invoked
\*     (settling its promise with the response when the ids agree) and
\*     removed; otherwise the message is dropped: the children, the stored
\*     responders, the hook and every promise stay as they were.
\* ------------------------------------------------------------------------

C20_ResponseNeverReachesHook ==
  [][(/\ op'.name = "emit"
      /\ op'.msg.type = RESPONSE
      /\ svc.subs[op'.ch] # <<>>
      /\ messengersAreEqual(op'.msg.destination, svc.messenger))
       => LET r == op'.msg.requestId IN
          /\ svc'.calls = 0
          /\ svc'.out = <<>>
          /\ svc'.workers = svc.workers
          /\ svc'.messageReceivedCallback = svc.messageReceivedCallback
          /\ IF r \in DOMAIN svc.responseHandlers
               THEN LET h == svc.responseHandlers[r]
                        before == svc.futures[h.fut].inner[h.slot]
                        after == svc'.futures[h.fut].inner[h.slot]
                    IN /\ svc'.responseHandlers = MapDelete(svc.responseHandlers, r)
                       /\ IF svc.objs[h.obj].id = r
                            THEN /\ after.resolved
                                 /\ after.calls = before.calls + 1
                                 /\ ~before.resolved => after.value = op'.msg
                            ELSE after = before
               ELSE /\ svc'.responseHandlers = svc.responseHandlers
                    /\ \A f \in DOMAIN svc'.futures : svc'.futures[f] = svc.futures[f]]_vars

\* a RESPONSE naming an id nobody waits for arrived while a hook was
\* installed and the responder of a request was pending, and was dropped
C20_Witness ==
  /\ ArrivedHere
  /\ op.msg.type = RESPONSE
  /\ op.msg.requestId = 2
  /\ svc.messageReceivedCallback # NOOP
  /\ DOMAIN svc.responseHandlers = {1}
  /\ ~FutureResolved(svc.futures[1])
  /\ svc.entered >= 1
  /\ svc.calls = 0

\* ------------------------------------------------------------------------
\* Specification UtilSpec: one call of a function of messenger-utils.ts.
\* The first input is any Messenger of at most MaxChars characters: a
\* string, or an array whose elements and the breaks between them number
\* at most MaxChars, or null; the second comes from a fixed set of
\* addresses, or the other way round.
\* ------------------------------------------------------------------------

MaxChars == 3

COMMA == ","
Alphabet == {"a", "b", SLASH, SPACE}

\* the strings of at most n characters over the characters cs
StringsUpTo(cs, n) == UNION {[1..k -> cs] : k \in 0..n}

\* the array a string of elements written with commas between them stands for
RECURSIVE ItemsFrom(_, _)
ItemsFrom(s, cur) ==
  IF s = <<>> THEN <<cur>>
  ELSE IF Head(s) = COMMA THEN <<cur>> \o ItemsFrom(Tail(s), <<>>)
  ELSE ItemsFrom(Tail(s), Append(cur, Head(s)))

StringInputs == {Str(s) : s \in StringsUpTo(Alphabet, MaxChars)}
ArrayInputs ==
  {Arr(<<>>)} \cup {Arr(ItemsFrom(s, <<>>)) : s \in StringsUpTo(Alphabet \cup {COMMA}, MaxChars)}
Inputs == StringInputs \cup ArrayInputs \cup {Nil}

\* the other argument of a function of two addresses
Probes ==
  {Nil, Str(<<>>), Str(<<"/">>), Arr(<<>>),
   Str(<<"a">>), Arr(<< <<"a">> >>), Str(<<"b">>),
   Str(<<"a", "/", "b">>), Arr(<< <<"a">>, <<"b">> >>),
   Str(<<"a", "/", "b", "/", "a">>)}

UtilInit ==
  /\ \E x \in Inputs, y \in Probes, swap \in BOOLEAN :
       util = [fn |-> "none", a |-> IF swap THEN y ELSE x,
               b |-> IF swap THEN x ELSE y, out |-> Nil]
  /\ svc = NewService(ROOT, TRUE, Channels)
  /\ op = Op("init", 0, NONE, <<>>, Null)
  /\ abandoned = {}
  /\ ClassInit
  /\ TreeVarsInit

NormalizeMessenger ==
  /\ util.fn = "none"
  /\ util' = [util EXCEPT !.fn = "normalizeMessenger",
                          !.out = normalizeMessenger(util.a)]
  /\ UtilFrame

MessengerAsArray ==
  /\ util.fn = "none"
  /\ util' = [util EXCEPT !.fn = "messengerAsArray",
                          !.out = messengerAsArray(util.a)]
  /\ UtilFrame

MessengerAsString ==
  /\ util.fn = "none"
  /\ util' = [util EXCEPT !.fn = "messengerAsString",
                          !.out = messengerAsString(util.a)]
  /\ UtilFrame

MessengersAreEqual ==
  /\ util.fn = "none"
  /\ util' = [util EXCEPT !.fn = "messengersAreEqual",
                          !.out = messengersAreEqual(util.a, util.b)]
  /\ UtilFrame

\* messengerAsArray(here) or messengerAsArray(there) throws for null
MessengerIsUpstream ==
  /\ util.fn = "none"
  /\ util' = [util EXCEPT !.fn = "messengerIsUpstream",
                          !.out = IF util.a = Nil \/ util.b = Nil THEN Thrown
                                  ELSE messengerIsUpstream(util.a, util.b)]
  /\ UtilFrame

UtilNext ==
  \/ NormalizeMessenger
  \/ MessengerAsArray
  \/ MessengerAsString
  \/ MessengersAreEqual
  \/ MessengerIsUpstream

UtilSpec == UtilInit /\ [][UtilNext]_vars

\* ------------------------------------------------------------------------
\* Addresses (UtilSpec)
\* ------------------------------------------------------------------------

\* the address a Messenger stands for: the pieces between its separators,
\* each without the whitespace around it, the empty ones left out
Canonical(m) ==
  FilterBoolean(MapTrim(Split(IF m.k = "str" THEN m.v[1] ELSE Join(m.v))))

\* the call looked at is fn(a, b) of two addresses
Called(fn) == util.fn = fn /\ util.a # Nil /\ util.b # Nil

IsPrefix(s, t) == Len(s) <= Len(t) /\ SubSeq(t, 1, Len(s)) = s

\* ------------------------------------------------------------------------
\* C21 messengerIsUpstream(here, there) is false whenever here and there
\*     stand for the same address, the root included, in whatever form
\*     (string or array) each of them is written.  (Stated as claimed; the
\*     code breaks it.)
\* ------------------------------------------------------------------------

C21_NeverUpstreamOfItself ==
  (Called("messengerIsUpstream") /\ Canonical(util.a) = Canonical(util.b))
    => util.out = FALSE

\* ------------------------------------------------------------------------
\* C22 messengerIsUpstream(here, there) is true whenever the address of
\*     there is a strict prefix of the address of here; the root address is
\*     a strict prefix of every other address.
\* ------------------------------------------------------------------------

StrictPrefix(s, t) == IsPrefix(s, t) /\ Len(s) < Len(t)

C22_AncestorIsUpstream ==
  (Called("messengerIsUpstream") /\ StrictPrefix(Canonical(util.b), Canonical(util.a)))
    => util.out = TRUE

\* here is two levels deep and there is its parent, written in the other form
C22_Witness ==
  /\ Called("messengerIsUpstream")
  /\ Canonical(util.a) = << <<"a">>, <<"b">> >>
  /\ Canonical(util.b) = << <<"a">> >>
  /\ util.a.k # util.b.k
  /\ util.out = TRUE

\* ------------------------------------------------------------------------
\* C23 for a here that is not the root address, messengerIsUpstream(here,
\*     there) is true exactly when the address of here is not a prefix of
\*     the address of there: true on a divergent branch, false for a strict
\*     descendant of here.  (Stated as claimed; the code breaks it.)
\* ------------------------------------------------------------------------

C23_UpstreamIffNotPrefix ==
  (Called("messengerIsUpstream") /\ Canonical(util.a) # <<>>)
    => (util.out = TRUE <=> ~IsPrefix(Canonical(util.a), Canonical(util.b)))

\* ------------------------------------------------------------------------
\* Specification RootSpec: a router whose own address has no segment: the
\* main thread ('/'), or a worker that was given the name '/' or no name
\* ('', the default of a web worker) and that has a channel to its parent.
\* ------------------------------------------------------------------------

RootHeres == {<<ROOT, TRUE>>, <<ROOT, FALSE>>, <<Str(<<>>), FALSE>>}

RootInit ==
  /\ \E h \in RootHeres : svc = NewService(h[1], h[2], Channels)
  /\ op = Op("init", 0, NONE, <<>>, Null)
  /\ abandoned = {}
  /\ ClassInit
  /\ TreeVarsInit
  /\ UtilVarsInit

RootNext ==
  \/ AddWorkerOf({<<"a">>}, {W1})
  \/ SendNewOf({GENERAL, REQUEST}, Dests, {NONE}, MaxSends)
  \/ DeliverOf(Channels, {GENERAL}, Dests, MaxSends)

RootSpec == RootInit /\ [][RootNext]_vars

\* ------------------------------------------------------------------------
\* C24 a router whose own address has no segment never posts on the
\*     upstream channel: messengerIsUpstream(here, destination) is false
\*     for every destination, so neither sendMessage nor the forwarding
\*     step of the receive path takes the upstream route.
\* ------------------------------------------------------------------------

C24_RootNeverPostsUpstream ==
  messengerAsArray(svc.messenger) = <<>>
    => /\ \A i \in 1..Len(svc.out) : svc.out[i].ch # UP
       /\ (IsSend \/ IsEmit) => ~messengerIsUpstream(svc.messenger, op.msg.destination)

\* a worker whose address has no segment has forwarded a payload that was
\* addressed to another context, and to its child, not upstream
C24_Witness ==
  /\ IsEmit
  /\ ~svc.isMainThread
  /\ messengerAsArray(svc.messenger) = <<>>
  /\ op.ch = UP
  /\ ~op.msg.broadcast
  /\ svc.entered = 1
  /\ OutChannels = <<W1>>

\* ------------------------------------------------------------------------
\* C25 messengersAreEqual is reflexive and symmetric over the forms of one
\*     address: it is true for any two Messengers that stand for the same
\*     address and for a Messenger and itself, and gives the same answer
\*     with the arguments exchanged; every two forms of the root address,
\*     the empty string and the empty array included, are equal.  (Stated
\*     as claimed; the code breaks it.)
\* ------------------------------------------------------------------------

C25_EqualOverForms ==
  Called("messengersAreEqual")
    => /\ util.out = messengersAreEqual(util.b, util.a)
       /\ messengersAreEqual(util.a, util.a)
       /\ Canonical(util.a) = Canonical(util.b) => util.out = TRUE

\* ------------------------------------------------------------------------
\* C26 for Messengers a and b that are not null, strings or arrays,
\*     messengersAreEqual(a, b) is true if and only if messengerAsArray(a)
\*     and messengerAsArray(b) are the same sequence; strings with
\*     whitespace around inner segments are included.  (Stated as claimed;
\*     the code breaks it.)
\* ------------------------------------------------------------------------

C26_EqualIffSameSegments ==
  Called("messengersAreEqual")
    => (util.out = TRUE <=> messengerAsArray(util.a) = messengerAsArray(util.b))

\* ------------------------------------------------------------------------
\* C27 for every Messenger a that is not null, a string or an array whose
\*     elements may hold separators and whitespace,
\*     messengerAsArray(messengerAsString(a)) = messengerAsArray(a).
\*     (Stated as claimed; the code breaks it.)
\* ------------------------------------------------------------------------

C27_RoundTrip ==
  (util.fn = "messengerAsString" /\ util.a # Nil)
    => messengerAsArray(Str(util.out)) = messengerAsArray(util.a)

\* ------------------------------------------------------------------------
\* C28 for every Messenger that is not null, normalizeMessenger and
\*     messengerAsArray return a canonical address: every segment is
\*     non-empty, has no whitespace at either end and holds no separator,
\*     and a string result has no separator at either end and no two in a
\*     row; messengerAsString of the empty array is the separator alone.
\*     (Stated as claimed; the code breaks it.)
\* ------------------------------------------------------------------------

CanonicalSegment(s) ==
  /\ s # <<>>
  /\ Head(s) # SPACE
  /\ s[Len(s)] # SPACE
  /\ \A i \in 1..Len(s) : s[i] # SLASH

CanonicalSegments(a) == \A i \in 1..Len(a) : CanonicalSegment(a[i])

CanonicalString(s) ==
  \/ s = <<>>
  \/ /\ Head(s) # SLASH
     /\ s[Len(s)] # SLASH
     /\ \A i \in 1..(Len(s) - 1) : ~(s[i] = SLASH /\ s[i + 1] = SLASH)
     /\ CanonicalSegments(Split(s))

C28_ResultsAreCanonical ==
  /\ (util.fn = "normalizeMessenger" /\ util.a.k = "str")
       => (util.out.k = "str" /\ CanonicalString(util.out.v[1]))
  /\ (util.fn = "normalizeMessenger" /\ util.a.k = "arr")
       => (util.out.k = "arr" /\ CanonicalSegments(util.out.v))
  /\ (util.fn = "messengerAsArray" /\ util.a # Nil)
       => CanonicalSegments(util.out)
  /\ (util.fn = "messengerAsString" /\ util.a = Arr(<<>>))
       => util.out = <<SLASH>>

\* ------------------------------------------------------------------------
\* C29 normalizeMessenger, messengerAsArray and messengerAsString throw for
\*     null or undefined and return a value for the empty string and for
\*     the empty array; messengersAreEqual returns false, and does not
\*     throw, when either argument is null or undefined.
\* ------------------------------------------------------------------------

Empties == {Str(<<>>), Arr(<<>>)}

C29_NullThrowsEmptyDoesNot ==
  /\ util.fn = "normalizeMessenger"
       => /\ util.a = Nil => util.out = Thrown
          /\ util.a \in Empties => util.out = util.a
  /\ util.fn = "messengerAsArray"
       => /\ util.a = Nil => util.out = ErrorArr
          /\ util.a \in Empties => util.out = <<>>
  /\ util.fn = "messengerAsString"
       => /\ util.a = Nil => util.out = ErrorStr
          /\ util.a \in Empties => util.out = <<SLASH>>
  /\ (util.fn = "messengersAreEqual" /\ (util.a = Nil \/ util.b = Nil))
       => util.out = FALSE

\* null was compared with null
C29_Witness ==
  /\ util.fn = "messengersAreEqual"
  /\ util.a = Nil
  /\ util.b = Nil
  /\ util.out = FALSE

\* ------------------------------------------------------------------------
\* Specification MsgSpec: the constructors of src/models.  A general
\* message is constructed, or a request, which routers then stamp (source
\* and id, sendMessage lines 201-202) before and after a response to it is
\* constructed.
\*   util.a    the request as it is now
\*   util.b    the request as it was when the response was constructed
\*   util.out  the message constructed
\* ------------------------------------------------------------------------

MaxIds == 2

\* the addresses of the routers that stamp the request
Stampers == {ROOT, Str(<<"a">>), Arr(<< <<"a">>, <<"b">> >>)}

MsgInit ==
  /\ util = NoCall
  /\ svc = NewService(ROOT, TRUE, Channels)
  /\ op = Op("init", 0, NONE, <<>>, Null)
  /\ abandoned = {}
  /\ ClassInit
  /\ TreeVarsInit

NewGeneralMessage ==
  \E destination \in Dests :
    /\ util.fn = "none"
    /\ util' = [util EXCEPT !.fn = "GeneralMessage", !.out = GeneralMessage(destination)]
    /\ UtilFrame

NewRequestMessage ==
  \E destination \in Dests :
    /\ util.fn = "none"
    /\ util' = [util EXCEPT !.fn = "RequestMessage", !.a = RequestMessage(destination),
                            !.out = RequestMessage(destination)]
    /\ UtilFrame

\* a router sends the request: message.source = this.messenger and
\* message.id = generateUUID()
StampRequest ==
  \E here \in Stampers, uuid \in 1..MaxIds :
    /\ util.fn \in {"RequestMessage", "ResponseMessage"}
    /\ uuid > util.a.id
    /\ util' = [util EXCEPT !.a = [@ EXCEPT !.source = here, !.id = uuid]]
    /\ UtilFrame

NewResponseMessage ==
  /\ util.fn = "RequestMessage"
  /\ util' = [util EXCEPT !.fn = "ResponseMessage", !.b = util.a,
                          !.out = ResponseMessage(util.a)]
  /\ UtilFrame

MsgNext ==
  \/ NewGeneralMessage
  \/ NewRequestMessage
  \/ StampRequest
  \/ NewResponseMessage

MsgSpec == MsgInit /\ [][MsgNext]_vars

\* ------------------------------------------------------------------------
\* C30 a ResponseMessage constructed from a request r has type RESPONSE,
\*     requestId equal to r.id and destination equal to r.source as they
\*     were when it was constructed; a RequestMessage has type REQUEST; a
\*     GeneralMessage has type GENERAL, broadcast false and the empty
\*     source.  (Stated as claimed; the code breaks it: both subclasses
\*     keep the type GENERAL.)
\* ------------------------------------------------------------------------

C30_Constructors ==
  /\ util.fn = "ResponseMessage"
       => /\ util.out.type = RESPONSE
          /\ util.out.requestId = util.b.id
          /\ util.out.destination = util.b.source
  /\ util.fn = "RequestMessage"
       => util.out.type = REQUEST
  /\ util.fn = "GeneralMessage"
       => /\ util.out.type = GENERAL
          /\ util.out.broadcast = FALSE
          /\ util.out.source = Arr(<<>>)

\* ------------------------------------------------------------------------
\* Specification FwdSpec: one router between its neighbours.  The
\* application registers child "a" as worker W1 and child "b" as worker
\* W2 and sends a REQUEST; the neighbours emit payloads with and without
\* the broadcast flag, for the root, for "a" and for "a/b".
\* ------------------------------------------------------------------------

FwdDests == {ROOT, Str(<<"a">>), Arr(<< <<"a">>, <<"b">> >>)}

\* a neighbouring context posts a payload on one of the channels
Receive ==
  \E ch \in Channels, type \in {GENERAL, RESPONSE}, broadcast \in BOOLEAN,
     destination \in FwdDests :
    /\ svc' = emit(svc, ch, Payload(type, broadcast, destination, 1))
    /\ op' = Op("emit", 0, ch, <<>>, Payload(type, broadcast, destination, 1))
    /\ UNCHANGED abandoned
    /\ ServiceFrame

FwdNext ==
  \/ AddWorkerOf({<<"a">>}, {W1})
  \/ AddWorkerOf({<<"b">>}, {W2})
  \/ SendNewOf({REQUEST}, {Str(<<"a">>)}, {NONE}, MaxPending)
  \/ Receive

FwdSpec == Init /\ [][FwdNext]_vars

\* the channels of the children of c from the i-th on that are the
\* destination of message or its next hop, in Map order
RECURSIVE MatchingFrom(_, _, _)
MatchingFrom(c, i, message) ==
  IF i > Len(c.workers) THEN <<>>
  ELSE (IF Matches(c, i, message) THEN <<c.workers[i].ch>> ELSE <<>>)
         \o MatchingFrom(c, i + 1, message)

\* the one hop a router c gives a message that is for another context
OneHop(c, message) ==
  LET here == messengerAsArray(c.messenger)
      there == messengerAsArray(message.destination)
  IN IF ~IsPrefix(here, there) THEN <<UP>>
     ELSE MatchingFrom(c, 1, message)

\* n times the sequence s
RECURSIVE Times(_, _)
Times(s, n) == IF n = 0 THEN <<>> ELSE s \o Times(s, n - 1)

\* a payload for another context: not a broadcast, and its destination is
\* not the address of c
ForAnother(c, message) ==
  /\ ~message.broadcast
  /\ messengerAsArray(message.destination) # messengerAsArray(c.messenger)

\* ------------------------------------------------------------------------
\* C31 a payload that is not a broadcast and whose destination is not the
\*     router's own address never invokes the hook and never touches the
\*     pending responders or their promises; every listener on the channel
\*     it arrived on forwards it, unchanged, one hop: on the upstream
\*     channel when the destination is upstream, otherwise to the children
\*     registered as the destination or as its next hop, and to nobody
\*     when there is no such child.
\* ------------------------------------------------------------------------

C31_ForwardedOneHop ==
  [][(op'.name = "emit" /\ ForAnother(svc, op'.msg)) =>
       /\ svc'.calls = 0
       /\ svc'.responseHandlers = svc.responseHandlers
       /\ \A f \in DOMAIN svc'.futures : svc'.futures[f] = svc.futures[f]
       /\ \A i \in 1..Len(svc'.out) : svc'.out[i].msg = op'.msg
       /\ [i \in 1..Len(svc'.out) |-> svc'.out[i].ch]
            = Times(OneHop(svc, op'.msg), Len(svc.subs[op'.ch]))]_vars

\* a RESPONSE that names the pending request and is addressed to a child
\* arrived from the parent while two children were registered: it went to
\* the one child and the responder stayed
C31_Witness ==
  /\ IsEmit
  /\ ForAnother(svc, op.msg)
  /\ op.ch = UP
  /\ ~svc.isMainThread
  /\ op.msg.type = RESPONSE
  /\ op.msg.requestId \in DOMAIN svc.responseHandlers
  /\ Len(svc.workers) = 2
  /\ svc.entered = 1
  /\ svc.calls = 0
  /\ OutChannels = <<W2>>

\* ------------------------------------------------------------------------
\* C32 a payload with broadcast = true is handled where it arrives,
\*     whatever its destination: a RESPONSE goes to the responder stored
\*     under its requestId, which is then removed, and never to the hook;
\*     any other payload goes to the hook; and the router posts it on no
\*     channel, neither upstream nor to a child.
\* ------------------------------------------------------------------------

C32_BroadcastHandledLocally ==
  [][(op'.name = "emit" /\ op'.msg.broadcast /\ svc.subs[op'.ch] # <<>>) =>
       LET r == op'.msg.requestId IN
       /\ svc'.out = <<>>
       /\ svc'.entered = Len(svc.subs[op'.ch])
       /\ IF op'.msg.type = RESPONSE
            THEN /\ svc'.calls = 0
                 /\ svc'.responseHandlers = MapDelete(svc.responseHandlers, r)
                 /\ (r \in DOMAIN svc.responseHandlers
                     /\ svc.objs[svc.responseHandlers[r].obj].id = r)
                      => LET h == svc.responseHandlers[r]
                         IN svc'.futures[h.fut].inner[h.slot].resolved
            ELSE /\ svc'.calls = Len(svc.subs[op'.ch])
                 /\ svc'.responseHandlers = svc.responseHandlers]_vars

\* a broadcast addressed to a registered child arrived at a worker from its
\* parent: the hook took it and the child got nothing
C32_Witness ==
  /\ IsEmit
  /\ op.msg.broadcast
  /\ op.msg.type = GENERAL
  /\ op.ch = UP
  /\ ~svc.isMainThread
  /\ \E i \in 1..Len(svc.workers) : Matches(svc, i, op.msg)
  /\ messengerAsArray(op.msg.destination) # messengerAsArray(svc.messenger)
  /\ svc.calls = 1
  /\ svc.out = <<>>

\* ------------------------------------------------------------------------
\* C33 what a router forwards is the payload it received: destination, id,
\*     source, type, broadcast flag and requestId are as they arrived.
\*     Only sendMessage writes into a message, and only its id and source.
\* ------------------------------------------------------------------------

C33_ForwardingLeavesMessage ==
  /\ IsEmit => \A i \in 1..Len(svc.out) :
       LET m == svc.out[i].msg IN
       /\ m.destination = op.msg.destination
       /\ m.id = op.msg.id
       /\ m.source = op.msg.source
       /\ m.type = op.msg.type
       /\ m.broadcast = op.msg.broadcast
       /\ m.requestId = op.msg.requestId
  /\ IsSend => \A i \in 1..Len(svc.out) :
       LET m == svc.out[i].msg IN
       /\ m.destination = op.msg.destination
       /\ m.id = svc.uuids
       /\ m.source = svc.messenger
       /\ m.type = op.msg.type
       /\ m.broadcast = op.msg.broadcast
       /\ m.requestId = op.msg.requestId

\* a worker that has sent a message of its own forwarded a child's payload
\* to its parent: the payload carries neither the worker's address nor an
\* id of the worker
C33_Witness ==
  /\ IsEmit
  /\ ~svc.isMainThread
  /\ op.ch = W1
  /\ svc.uuids = 1
  /\ OutChannels = <<UP>>
  /\ svc.out[1].msg.source # svc.messenger
  /\ svc.out[1].msg.id # svc.uuids

\* ------------------------------------------------------------------------
\* Specification OrdSpec: one context, the main thread or the worker 'a',
\* that has registered its worker "a" as W1 and whose application calls
\* sendMessage several times.  sendMessage is an async function: a call runs up to
\* `await Promise.all(sendMessagePromises)` (line 287) before the caller
\* goes on, and the rest of it (line 288) runs once the awaited promise is
\* settled, which for a REQUEST is when its RESPONSE has arrived, so that
\* the calls may be resumed in another order than they were made.  A call
\* that selects no destination does not reach the await: it returns null
\* (line 296).  Meanwhile the neighbours' RESPONSE payloads arrive;
\* handleMessage resolves the ones for this context and posts the others
\* on (forwardMessage), between the posts of the sendMessage calls.
\*   wire   channel -> the payloads posted on it so far, in order
\*   calls  the sendMessage calls that are suspended at the await: the id
\*          the call assigned and what it is still to post
\* The record op of the last operation is not kept in this specification.
\* ------------------------------------------------------------------------

MaxOrdSends == 2      \* sendMessage calls per behaviour of OrdSpec
MaxOrdForwards == 1   \* payloads forwarded per behaviour of OrdSpec

\* a sendMessage that awaits before destinations.map(...) and posts when
\* it is resumed
PostsAfterTheAwait(c0, o, message0, worker) ==
  [before |-> <<>>, after |-> sendMessage(c0, o, message0, worker).out]

\* the posts of one sendMessage call, before and after its await:
\* destination(message) is called inside destinations.map(...) (lines 275
\* and 280, for a REQUEST in the Promise executor, which runs at once), so
\* every post is made before line 287 and none after it
PostsOfCall(c0, o, message0, worker) ==
  [before |-> sendMessage(c0, o, message0, worker).out, after |-> <<>>]

\* the posts join what the channels carried so far
RECURSIVE Carried(_, _)
Carried(w, out) ==
  IF out = <<>> THEN w
  ELSE Carried([w EXCEPT ![Head(out).ch] = Append(@, Head(out).msg)], Tail(out))

\* the promise the call with this id awaits is settled
Awaited(c, id) ==
  IF id \in DOMAIN c.futures THEN FutureResolved(c.futures[id]) ELSE TRUE

\* the payloads on the channels that no sendMessage call of this context
\* has stamped
Forwarded(w) ==
  Cardinality(UNION {{<<ch, i>> : i \in {k \in 1..Len(w[ch]) : w[ch][k].id = NoId}} :
                       ch \in Channels})

OrdInit ==
  /\ \E h \in Heres : svc = addWorker(NewService(h[1], h[2], Channels), <<"a">>, W1)
  /\ op = Op("init", 0, NONE, <<>>, Null)
  /\ abandoned = {}
  /\ ClassInit
  /\ UtilVarsInit
  /\ wire = [ch \in Channels |-> <<>>]
  /\ tree = EmptyMap
  /\ heard = {}
  /\ expect = {}
  /\ hooked = EmptyMap
  /\ hops = EmptyMap

\* the application calls sendMessage with a new message object; the call
\* is suspended at the await when it has selected a destination (line 259)
\* and has returned otherwise (line 296)
OrdSend ==
  \E type \in {GENERAL, REQUEST}, destination \in ReqDests, worker \in {NONE, W1} :
    /\ svc.uuids < MaxOrdSends
    /\ LET message == NewMessage(type, FALSE, destination)
           o == svc.uuids + 1
           sent == sendMessage(svc, o, message, worker)
           posts == PostsOfCall(svc, o, message, worker)
       IN /\ svc' = [sent EXCEPT !.out = posts.before]
          /\ wire' = Carried(wire, posts.before)
          /\ calls' = IF Len(Destinations(sent, sent.objs[o], worker)) > 0
                        THEN Append(calls, [id |-> o, after |-> posts.after])
                        ELSE calls
    /\ UNCHANGED <<op, abandoned, class, tree, heard, expect, util, hooked, hops>>

\* a suspended call goes on after its await and returns (line 288)
OrdResume ==
  \E i \in 1..Len(calls) :
    /\ Awaited(svc, calls[i].id)
    /\ wire' = Carried(wire, calls[i].after)
    /\ calls' = SubSeq(calls, 1, i - 1) \o SubSeq(calls, i + 1, Len(calls))
    /\ UNCHANGED <<svc, op, abandoned, class, tree, heard, expect, util, hooked, hops>>

\* a neighbour's RESPONSE arrives on a channel: handleMessage settles the
\* promise that waits for it (lines 305-323) or posts the payload on
\* (forwardMessage, line 329); a RESPONSE for another context answers a
\* request of that context, drawn as its request 1
OrdDeliver ==
  \E ch \in {W1}, destination \in {ROOT, Str(<<"a">>)}, requestId \in 1..MaxOrdSends :
    LET message == Payload(RESPONSE, FALSE, destination, requestId)
        c == emit(svc, ch, message)
        w == Carried(wire, c.out)
    IN /\ ~messengersAreEqual(destination, svc.messenger) => requestId = 1
       /\ Forwarded(w) <= MaxOrdForwards
       /\ svc' = c
       /\ wire' = w
       /\ UNCHANGED <<op, abandoned, class, calls, tree, heard, expect, util, hooked, hops>>

OrdNext ==
  \/ OrdSend
  \/ OrdResume
  \/ OrdDeliver

OrdSpec == OrdInit /\ [][OrdNext]_vars

\* ------------------------------------------------------------------------
\* C34 the messages one context sends by successive sendMessage calls are
\*     posted on every channel the calls select in the order of the calls,
\*     which is the order of the ids the calls assign, whether the calls
\*     have returned or are still awaiting their responses, and whatever
\*     the context forwards in between; a channel that keeps the order
\*     hands them to the neighbour in that order.
\* ------------------------------------------------------------------------

\* the payload is a message a sendMessage call of this context has posted
SentByCall(m) == m.id \in 1..svc.uuids /\ m.source = svc.messenger

C34_SubmissionOrder ==
  \A ch \in Channels :
    \A i, j \in 1..Len(wire[ch]) :
      (i < j /\ SentByCall(wire[ch][i]) /\ SentByCall(wire[ch][j]))
        => wire[ch][i].id < wire[ch][j].id

\* a REQUEST, a forwarded RESPONSE and then a second message were posted
\* on one channel; the second call has returned while the first still
\* awaits its response
C34_Witness ==
  \E ch \in Channels :
    /\ Len(wire[ch]) = 3
    /\ wire[ch][1].type = REQUEST
    /\ wire[ch][1].id = 1
    /\ ~SentByCall(wire[ch][2])
    /\ wire[ch][3].id = 2
    /\ Len(calls) = 1
    /\ calls[1].id = 1
    /\ ~Awaited(svc, 1)

\* ------------------------------------------------------------------------
\* Specification NetSpec: a tree of five contexts, each in its own thread,
\* after every parent has registered its workers under the names the
\* workers were started with.  A context is named by the segments of its
\* address: the main thread <<>>, its workers a and b, and their workers
\* a/b and b/a.  A parent holds the worker named "a" as W1 and the worker
\* named "b" as W2.  The applications send messages to the contexts and to
\* addresses where no context is: a new GeneralMessage, a new
\* RequestMessage, or a message whose public field type they have set to
\* REQUEST.  The channels deliver the structured clone of what was posted,
\* and an application whose hook took a REQUEST sends the ResponseMessage
\* built from it.
\*   tree    context -> the service (see NewService)
\*   wire    <<context, channel>> -> payloads posted and not yet delivered
\*   hooked  <<context, message>> -> how often the hook of the context was
\*           invoked with the message
\*   hops    <<context, channel, message>> -> how often the context posted
\*           the message on the channel
\* ------------------------------------------------------------------------

MaxNetSends == 1   \* sendMessage calls of the applications, answers aside

NetNodes == {<<>>, << <<"a">> >>, << <<"b">> >>,
             << <<"a">>, <<"b">> >>, << <<"b">>, <<"a">> >>}

\* '/' on the main thread, workerData.name in a worker
NetAddress(n) == IF n = <<>> THEN ROOT ELSE Str(Join(n))

\* destinations: every context, and two addresses without a context
NetDests == {NetAddress(n) : n \in NetNodes}
              \cup {Str(<<"c">>), Str(<<"a", "/", "a">>)}

\* the far end of a channel: the context and the channel it listens on
NetPeer(n, ch) ==
  IF ch = UP
    THEN <<SubSeq(n, 1, Len(n) - 1), IF n[Len(n)] = <<"a">> THEN W1 ELSE W2>>
    ELSE <<Append(n, IF ch = W1 THEN <<"a">> ELSE <<"b">>), UP>>

\* postMessage: the structured clone of what an operation of context n
\* posted joins the queues
RECURSIVE NetTransmit(_, _, _)
NetTransmit(w, n, out) ==
  IF out = <<>> THEN w
  ELSE NetTransmit([w EXCEPT ![NetPeer(n, Head(out).ch)] =
                               Append(@, StructuredClone(Head(out).msg))],
                   n, Tail(out))

\* how often x was counted in f, and f with x counted k times more
Count(f, x) == IF x \in DOMAIN f THEN f[x] ELSE 0
Tally(f, x, k) == IF k = 0 THEN f ELSE MapSet(f, x, Count(f, x) + k)

\* the posts of an operation of context n, counted
RECURSIVE Traversed(_, _, _)
Traversed(h, n, out) ==
  IF out = <<>> THEN h
  ELSE Traversed(Tally(h, <<n, Head(out).ch, StructuredClone(Head(out).msg)>>, 1),
                 n, Tail(out))

\* sendMessage calls made so far, in all contexts
RECURSIVE NetSent(_, _)
NetSent(t, ns) ==
  IF ns = {} THEN 0
  ELSE LET n == CHOOSE m \in ns : TRUE IN t[n].uuids + NetSent(t, ns \ {n})

NetInit ==
  /\ tree = [n \in NetNodes |->
               LET c0 == NewService(NetAddress(n), n = <<>>, Channels)
                   c1 == IF Append(n, <<"a">>) \in NetNodes
                           THEN addWorker(c0, <<"a">>, W1) ELSE c0
               IN IF Append(n, <<"b">>) \in NetNodes
                    THEN addWorker(c1, <<"b">>, W2) ELSE c1]
  /\ wire = [l \in NetNodes \X Channels |-> <<>>]
  /\ hooked = EmptyMap
  /\ hops = EmptyMap
  /\ heard = {}
  /\ expect = {}
  /\ svc = NewService(ROOT, TRUE, Channels)
  /\ op = Op("init", 0, NONE, <<>>, Null)
  /\ abandoned = {}
  /\ ClassInit
  /\ UtilVarsInit

NetFrame == UNCHANGED <<svc, op, abandoned, class, calls, util, heard, expect>>

\* the messages an application sends to a destination
NetMessages(destination) ==
  {GeneralMessage(destination), RequestMessage(destination),
   NewMessage(REQUEST, FALSE, destination)}

\* the application in context n sends a new message
NetSend ==
  \E n \in NetNodes, destination \in NetDests : \E message \in NetMessages(destination) :
    /\ NetSent(tree, NetNodes) < MaxNetSends
    /\ LET c == sendMessage(tree[n], tree[n].uuids + 1, message, NONE)
       IN /\ tree' = [tree EXCEPT ![n] = c]
          /\ wire' = NetTransmit(wire, n, c.out)
          /\ hops' = Traversed(hops, n, c.out)
    /\ UNCHANGED hooked
    /\ NetFrame

\* the payload at the head of a queue is emitted on context n's channel
NetDeliver ==
  \E n \in NetNodes, ch \in Channels :
    /\ wire[<<n, ch>>] # <<>>
    /\ LET message == Head(wire[<<n, ch>>])
           c == emit(tree[n], ch, message)
       IN /\ tree' = [tree EXCEPT ![n] = c]
          /\ wire' = NetTransmit([wire EXCEPT ![<<n, ch>>] = Tail(@)], n, c.out)
          /\ hooked' = Tally(hooked, <<n, message>>, c.calls)
          /\ hops' = Traversed(hops, n, c.out)
    /\ NetFrame

\* context x[1] has sent a ResponseMessage built from the message x[2]
HasAnswered(x) ==
  \E o \in DOMAIN tree[x[1]].objs :
    /\ tree[x[1]].objs[o].requestId = x[2].id
    /\ tree[x[1]].objs[o].destination = x[2].source

\* a REQUEST the hook of context x[1] took has not been answered
AnswerDue(x) ==
  /\ x[2].type = REQUEST
  /\ tree[x[1]].uuids < MaxNetSends
  /\ ~HasAnswered(x)

\* the application in context n answers a REQUEST its hook took:
\* sendMessage(new ResponseMessage(name, request))
NetAnswer ==
  \E x \in DOMAIN hooked :
    LET n == x[1]
        c == sendMessage(tree[n], tree[n].uuids + 1, ResponseMessage(x[2]), NONE)
    IN /\ AnswerDue(x)
       /\ tree' = [tree EXCEPT ![n] = c]
       /\ wire' = NetTransmit(wire, n, c.out)
       /\ hops' = Traversed(hops, n, c.out)
       /\ UNCHANGED hooked
       /\ NetFrame

NetNext ==
  \/ NetSend
  \/ NetDeliver
  \/ NetAnswer

NetSpec == NetInit /\ [][NetNext]_vars

\* nothing is under way
NetQuiet == \A l \in NetNodes \X Channels : wire[l] = <<>>

\* channels deliver every payload and a REQUEST that was taken is
\* answered: weak fairness of NetDeliver and of NetAnswer, which are
\* enabled exactly when a payload is under way and when an answer is due
NetLive ==
  /\ NetSpec
  /\ ([]<>NetQuiet \/ []<><<NetDeliver>>_vars)
  /\ ([]<>(\A x \in DOMAIN hooked : ~AnswerDue(x)) \/ []<><<NetAnswer>>_vars)

\* the message with id i that context n stamped for context d
Stamp(n, d, i, type) ==
  [id |-> i, type |-> type, broadcast |-> FALSE, source |-> NetAddress(n),
   destination |-> NetAddress(d), requestId |-> NoId]

\* the application in context n has just sent it
JustSent(n, d, i, type) ==
  \E o \in DOMAIN tree[n].objs : tree[n].objs[o] = Stamp(n, d, i, type)

\* ------------------------------------------------------------------------
\* C35 in the tree, a GENERAL or REQUEST message that is not a broadcast
\*     and that a context sends to the address of another context, be it
\*     an ancestor, a descendant, a sibling or a cousin, eventually invokes
\*     the hook of that context; no hook is ever invoked with a message
\*     for another address, and none more than once with one message.
\* ------------------------------------------------------------------------

\* a GENERAL or REQUEST message for one of the contexts has left its
\* sender and the hook of that context has not been invoked with it
Undelivered ==
  \E h \in DOMAIN hops :
    /\ h[3].type # RESPONSE
    /\ h[3].source = NetAddress(h[1])
    /\ messengerAsArray(h[3].destination) \in NetNodes
    /\ Count(hooked, <<messengerAsArray(h[3].destination), h[3]>>) = 0

Asked(n, i) ==
  \E o \in DOMAIN tree[n].objs :
    /\ tree[n].objs[o].id = i
    /\ tree[n].objs[o].type = REQUEST
    /\ messengerAsArray(tree[n].objs[o].destination) \in NetNodes \ {n}

\* the promise of that send is resolved with the response to it
Answered(n, i) ==
  /\ i \in DOMAIN tree[n].futures
  /\ FutureResolved(tree[n].futures[i])
  /\ FutureValue(tree[n].futures[i]).source # NetAddress(n)
  /\ FutureValue(tree[n].futures[i]).destination = NetAddress(n)

\* m is what the channels carry of a ResponseMessage some context has sent
IsAnswer(m) ==
  \E n \in NetNodes : \E o \in DOMAIN tree[n].objs :
    /\ tree[n].objs[o].requestId # NoId
    /\ StructuredClone(tree[n].objs[o]) = m

\* a payload for context n is at the head of one of its queues and is
\* taken in this step
TakesPayload(n) ==
  \E ch \in Channels :
    /\ wire[<<n, ch>>] # <<>>
    /\ messengerAsArray(Head(wire[<<n, ch>>]).destination) = n
    /\ wire'[<<n, ch>>] = Tail(wire[<<n, ch>>])

\* nothing is under way and every REQUEST a hook took has been answered
Settled ==
  /\ NetQuiet
  /\ \A x \in DOMAIN hooked : x[2].type = REQUEST => HasAnswered(x)

\* ------------------------------------------------------------------------
\* C37 a REQUEST for a context any number of hops away, answered there
\*     with the ResponseMessage built from it, gets its answer: the
\*     response travels back to the sender of the request and resolves the
\*     promise of that send.  On the way no hook is invoked with the
\*     response, none but the destination's with the request, and the
\*     stored responders of a context change only when the context sends
\*     a message itself or takes a payload addressed to it.  (Stated as
\*     claimed; the code breaks it.)
\* ------------------------------------------------------------------------

C37_ResponseComesBack ==
  /\ [](\A x \in DOMAIN hooked :
          ~IsAnswer(x[2]) /\ messengerAsArray(x[2].destination) = x[1])
  /\ [][\A n \in NetNodes :
          tree'[n].responseHandlers # tree[n].responseHandlers
            => (tree'[n].uuids # tree[n].uuids \/ TakesPayload(n))]_vars
  /\ [](Settled => \A n \in NetNodes : \A i \in 1..MaxNetSends :
                     Asked(n, i) => Answered(n, i))

\* ------------------------------------------------------------------------
\* C38 the promise of a send of a REQUEST on one channel resolves with the
\*     RESPONSE that names the id assigned by that send, also when the
\*     same message object was sent again, and so given a new id, before
\*     the response arrived.  (Stated as claimed; the code breaks it.)
\* ------------------------------------------------------------------------

C38_EachSendGetsItsResponse ==
  [][(/\ ResponseProcessed'
      /\ op'.msg.requestId \in DOMAIN svc.responseHandlers
      /\ svc.responseHandlers[op'.msg.requestId].fut = op'.msg.requestId
      /\ Len(svc.futures[op'.msg.requestId].inner) = 1)
        => /\ FutureResolved(svc'.futures[op'.msg.requestId])
           /\ FutureValue(svc'.futures[op'.msg.requestId]).requestId
                = op'.msg.requestId]_vars


\* ------------------------------------------------------------------------
\* SepSpec: children registered under a plain name and under a name that
\* contains the separator; getWorkerKey (lines 397-401) pushes the name as
\* one segment and joins, so 'a/b' on the root yields the key 'a/b', two
\* levels below
\* ------------------------------------------------------------------------

SepNames == {<<"a">>, <<"a", "/", "b">>}

SepDests == {ROOT, Str(<<"a">>), Str(<<"a", "/", "b">>),
             Arr(<< <<"a">>, <<"b">> >>), Str(<<"a", "/", "a">>)}

SepNext ==
  \/ AddWorkerOf({<<"a">>}, {W1})
  \/ AddWorkerOf({<<"a", "/", "b">>}, {W2})
  \/ RemoveWorker
  \/ SendNewOf({GENERAL}, SepDests, {NONE}, MaxSends)

SepSpec == Init /\ [][SepNext]_vars

\* the distinct channels the last operation posted on
PostedOn == {svc.out[i].ch : i \in 1..Len(svc.out)}

\* ------------------------------------------------------------------------
\* C39  a non-broadcast send without channel override dispatches the
\*      message on at most one channel, whatever names the children were
\*      registered under, names containing the separator included.
\* ------------------------------------------------------------------------

C39_AtMostOneChannel ==
  (IsSend /\ op.ch = NONE /\ ~op.msg.broadcast) => Cardinality(PostedOn) <= 1


\* ------------------------------------------------------------------------
\* C40  in every reachable state the child map and the child-handler map
\*      have the same key set, after any sequence of addWorker,
\*      removeWorker, cleanUp, sends and inbound payloads, on root and
\*      non-root routers.  (Stated as claimed; the code breaks it.)
\* ------------------------------------------------------------------------

C40_SameKeySets ==
  {svc.workers[i].key : i \in 1..Len(svc.workers)} = DOMAIN svc.workerListeners

====
